---- MODULE Spec2Model ----
(***************************************************************************)
(* Model of retefa.py: diagnosis of a network of communicating finite      *)
(* automata (ReteFA).  The objects of the program live in heaps indexed by *)
(* object identity: a SpazioComportamentale is a record                    *)
(*   [nodo, arco, nodi, archi, nodoIniziale]                               *)
(* where nodo and arco are the heaps of Nodo and Arco objects (the index   *)
(* is the object's identity), nodi and archi are the lists self.nodi and   *)
(* self.archi (references into the heaps) and nodoIniziale is a reference  *)
(* (0 for None).  A relevance string is a sequence of characters, one      *)
(* TLA+ string per character.                                              *)
(***************************************************************************)
EXTENDS Integers, Sequences, FiniteSets, TLC

VARIABLES rete, ol, seme, pc, sc, scol, d3, diag, d5, errore,
          argomento, risultato

vars == <<rete, ol, seme, pc, sc, scol, d3, diag, d5, errore, argomento, risultato>>

(***************************************************************************)
(* Bounds of the model.                                                    *)
(***************************************************************************)
\* the largest number of transitions of an input network
MaxTransizioni == 3
\* the largest length of an input linear observation
MaxOsservazione == 2

(***************************************************************************)
(* Generic helpers.                                                        *)
(***************************************************************************)
Range(s) == {s[i] : i \in DOMAIN s}

RECURSIVE Concat(_)
\* the concatenation of a sequence of sequences
Concat(ss) == IF ss = <<>> THEN <<>> ELSE Head(ss) \o Concat(Tail(ss))

\* the value of Corpo with its argument bound to v once
Sia(v, Corpo(_)) == Corpo(v)

\* the position of the first element of s satisfying Test, 0 if there is none
PrimoIndice(s, Test(_)) ==
    IF \E i \in DOMAIN s : Test(s[i])
    THEN CHOOSE i \in DOMAIN s : Test(s[i]) /\ \A j \in 1..(i - 1) : ~Test(s[j])
    ELSE 0

(***************************************************************************)
(* The network model: Buffer, Transizione, Stato, Comportamento, Link,     *)
(* ReteFA.  A Stato object is identified by its name (names are unique     *)
(* across behaviours here, as Stato objects are); None is the empty        *)
(* sequence and a present value a one-element sequence.                    *)
(***************************************************************************)
Buffer(link, evento) == [link |-> link, evento |-> evento]

Transizione(nome, stato0, stato1, eventoNecessario, eventiOutput, osservabilita, rilevanza) ==
    [nome |-> nome, stato0 |-> stato0, stato1 |-> stato1,
     eventoNecessario |-> eventoNecessario, eventiOutput |-> eventiOutput,
     osservabilita |-> osservabilita, rilevanza |-> rilevanza]

\* The transitions input networks are assembled from, with the behaviour
\* each belongs to.  B1 has the states a0 (initial), a1, a2; B2 has the
\* state b0; the link L goes from B1 to B2.  t1 and t2 are the two
\* transitions of the minimal loop.
Catalogo ==
    << [comp |-> 1, t |-> Transizione("p1", "a0", "a1", <<>>, <<>>, "o1", <<"a">>)],
       [comp |-> 1, t |-> Transizione("p2", "a0", "a1", <<>>, <<>>, "o1", <<"b">>)],
       [comp |-> 1, t |-> Transizione("p3", "a0", "a1", <<>>, <<>>, "", <<"a">>)],
       [comp |-> 1, t |-> Transizione("p4", "a1", "a1", <<>>, <<>>, "", <<"c">>)],
       [comp |-> 1, t |-> Transizione("p5", "a1", "a2", <<>>, <<>>, "o2", <<"b">>)],
       [comp |-> 1, t |-> Transizione("p6", "a0", "a1", <<>>, <<>>, "", <<"b">>)],
       [comp |-> 1, t |-> Transizione("p7", "a1", "a2", <<>>, <<>>, "", <<>>)],
       [comp |-> 1, t |-> Transizione("p8", "a2", "a0", <<>>, <<>>, "o1", <<"c">>)],
       [comp |-> 1, t |-> Transizione("p9", "a0", "a0", <<>>, <<Buffer("L", "x")>>, "o1", <<"a">>)],
       [comp |-> 1, t |-> Transizione("t1", "a0", "a0", <<>>, <<Buffer("L", "x")>>, "o1", <<"f">>)],
       [comp |-> 2, t |-> Transizione("q1", "b0", "b0", <<Buffer("L", "x")>>, <<>>, "", <<"d">>)],
       [comp |-> 2, t |-> Transizione("q2", "b0", "b0", <<Buffer("L", "x")>>, <<>>, "o2", <<"d">>)],
       [comp |-> 2, t |-> Transizione("t2", "b0", "b0", <<Buffer("L", "x")>>, <<>>, "", <<>>)] >>

\* the transitions of Catalogo chosen by T that belong to behaviour c, in order
TransizioniDi(T, c) ==
    LET idx == SelectSeq([i \in 1..Len(Catalogo) |-> i],
                         LAMBDA i : i \in T /\ Catalogo[i].comp = c)
    IN [k \in 1..Len(idx) |-> Catalogo[idx[k]].t]

\* the ReteFA holding the transitions T of the catalogue (ReteFA.fromXML's result)
ReteDa(T) ==
    [comportamenti |->
        << [nome |-> "B1", stati |-> <<"a0", "a1", "a2">>, statoIniziale |-> "a0",
            transizioni |-> TransizioniDi(T, 1)],
           [nome |-> "B2", stati |-> <<"b0">>, statoIniziale |-> "b0",
            transizioni |-> TransizioniDi(T, 2)] >>,
     links |-> << "L" >>]

Reti ==
    {ReteDa(T) : T \in {X \in SUBSET (1..Len(Catalogo)) : Cardinality(X) <= MaxTransizioni}}

\* the labels a linear observation is made of
EtichetteOsservazione == {"o1", "o2"}

Osservazioni ==
    UNION {[1..n -> EtichetteOsservazione] : n \in 0..MaxOsservazione}

\* Stato.transizioniUscenti, as compiled by step 8 of ReteFA.fromXML
TransizioniUscenti(r, stato) ==
    Concat([c \in 1..Len(r.comportamenti) |->
              SelectSeq(r.comportamenti[c].transizioni, LAMBDA t : t.stato0 = stato)])

\* all the transitions of the network
TutteTransizioni(r) ==
    Concat([c \in 1..Len(r.comportamenti) |-> r.comportamenti[c].transizioni])

\* a verification that accepts every observation
VerificaSempre(r, osservazioneLineare) == TRUE

(***************************************************************************)
(* ReteFA.verificaOsservazioneLineare: TRUE when every label of the        *)
(* observation labels some transition, FALSE when it raises ValueError.    *)
(***************************************************************************)
VerificaOsservazioneLineare(r, osservazioneLineare) ==
    \A etichetta \in Range(osservazioneLineare) :
        \E t \in Range(TutteTransizioni(r)) : t.osservabilita = etichetta

(***************************************************************************)
(* Nodo and Arco.                                                          *)
(***************************************************************************)
\* Nodo.__init__
NodoNuovo ==
    [nome |-> "None", stati |-> <<>>, contenutoLink |-> <<>>, isPotato |-> TRUE,
     isFinale |-> FALSE, indiceOsservazione |-> 0, archiUscenti |-> <<>>,
     chiusura |-> <<>>]

\* Nodo.clone: the adjacency list, the observation index and the closure
\* are not copied
NodoClone(self) ==
    [NodoNuovo EXCEPT !.nome = self.nome, !.stati = self.stati,
                      !.contenutoLink = self.contenutoLink,
                      !.isPotato = self.isPotato, !.isFinale = self.isFinale]

\* Nodo.__eq__
NodoEq(self, other) ==
    /\ self.indiceOsservazione = other.indiceOsservazione
    /\ self.isFinale = other.isFinale
    /\ Range(self.stati) = Range(other.stati)
    /\ Range(self.contenutoLink) = Range(other.contenutoLink)

\* Nodo.cercaContenutoLink: the position of the buffer of the link
CercaContenutoLink(contenutoLink, link) ==
    PrimoIndice(contenutoLink, LAMBDA b : b.link = link)

RECURSIVE RiempiBufferSempre(_, _)
\* the output events stored whether the buffers are empty or not
RiempiBufferSempre(contenutoLink, eventiOutput) ==
    IF eventiOutput = <<>> THEN <<contenutoLink>>
    ELSE LET eo == Head(eventiOutput)
             i == CercaContenutoLink(contenutoLink, eo.link)
         IN RiempiBufferSempre([contenutoLink EXCEPT ![i].evento = eo.evento],
                               Tail(eventiOutput))

RECURSIVE RiempiBuffer(_, _)
\* step 2 of verificaFattibilitaTransizione: the buffers after the output
\* events have been stored one after the other, <<>> if a buffer is full
RiempiBuffer(contenutoLink, eventiOutput) ==
    IF eventiOutput = <<>> THEN <<contenutoLink>>
    ELSE LET eo == Head(eventiOutput)
             i == CercaContenutoLink(contenutoLink, eo.link)
         IN IF contenutoLink[i].evento # "" THEN <<>>
            ELSE RiempiBuffer([contenutoLink EXCEPT ![i].evento = eo.evento],
                              Tail(eventiOutput))

\* Nodo.verificaFattibilitaTransizione: <<>> for None, else <<successor>>
VerificaFattibilitaTransizione(self, transizione) ==
    LET nodoOutput == NodoClone(self)
        en == transizione.eventoNecessario
        iNec == IF en = <<>> THEN 0
                ELSE CercaContenutoLink(nodoOutput.contenutoLink, en[1].link)
        manca == en # <<>> /\ nodoOutput.contenutoLink[iNec].evento # en[1].evento
        consumato == IF en = <<>> THEN nodoOutput.contenutoLink
                     ELSE [nodoOutput.contenutoLink EXCEPT ![iNec].evento = ""]
        riempito == RiempiBuffer(consumato, transizione.eventiOutput)
    IN IF manca \/ riempito = <<>> THEN <<>>
       ELSE LET iStato == PrimoIndice(nodoOutput.stati, LAMBDA s : s = transizione.stato0)
            IN << [nodoOutput EXCEPT
                     !.contenutoLink = riempito[1],
                     !.stati = [nodoOutput.stati EXCEPT ![iStato] = transizione.stato1],
                     !.isFinale = \A i \in DOMAIN riempito[1] : riempito[1][i].evento = ""] >>

\* Arco.__init__
Arco(nodo0, nodo1, transizione, rilevanza, osservabilita) ==
    [nodo0 |-> nodo0, nodo1 |-> nodo1, transizione |-> transizione,
     isPotato |-> TRUE, rilevanza |-> rilevanza, osservabilita |-> osservabilita]

(***************************************************************************)
(* SpazioComportamentale: construction.                                    *)
(***************************************************************************)
\* SpazioComportamentale.__init__: empty lists and a fresh Nodo as nodoIniziale
SpazioNuovo ==
    [nodo |-> <<NodoNuovo>>, arco |-> <<>>, nodi |-> <<>>, archi |-> <<>>,
     nodoIniziale |-> 1]

\* SpazioComportamentale.creaNodoIniziale
CreaNodoIniziale(self, r) ==
    [self EXCEPT !.nodo[self.nodoIniziale] =
        [@ EXCEPT !.stati = @ \o [c \in 1..Len(r.comportamenti) |->
                                     r.comportamenti[c].statoIniziale],
                  !.contenutoLink = @ \o [l \in 1..Len(r.links) |-> Buffer(r.links[l], "")],
                  !.isFinale = TRUE]]

\* SpazioComportamentale.addArco: a new Arco object, appended to self.archi
\* and to the adjacency list of its source
AddArco(self, arco) ==
    LET id == Len(self.arco) + 1
    IN [self EXCEPT !.arco = Append(@, arco), !.archi = Append(@, id),
                    !.nodo[arco.nodo0].archiUscenti = Append(@, id)]

\* SpazioComportamentale.addNodo for a Nodo object not yet in the heap
AddNodoNuovo(self, nodo) ==
    [self EXCEPT !.nodo = Append(@, nodo), !.nodi = Append(@, Len(self.nodo) + 1)]

\* a search that compares the state vectors only
RicercaNodoSoloStati(self, nodo) ==
    LET i == PrimoIndice(self.nodi, LAMBDA n : self.nodo[n].stati = nodo.stati)
    IN IF i = 0 THEN 0 ELSE self.nodi[i]

\* SpazioComportamentale.ricercaNodo: the first node of self.nodi equal by
\* value to nodo, 0 for None
RicercaNodo(self, nodo) ==
    LET i == PrimoIndice(self.nodi, LAMBDA n : NodoEq(nodo, self.nodo[n]))
    IN IF i = 0 THEN 0 ELSE self.nodi[i]

\* the edge is added only when the successor is new
AggiungiSoloNuovi(st, nodoCorr, trans, nodoSucc) ==
    IF RicercaNodo(st.sc, nodoSucc) # 0 THEN st
    ELSE [sc |-> AddArco(AddNodoNuovo(st.sc, nodoSucc),
                         Arco(nodoCorr, Len(st.sc.nodo) + 1, <<trans.nome>>, trans.rilevanza,
                              trans.osservabilita)),
          pila |-> Append(st.pila, Len(st.sc.nodo) + 1)]

\* lines 739-752 and 826-839: the successor nodoSucc of nodoCorr by trans is
\* looked up, added and pushed when new, and the edge is added.  st is the
\* state of the exploration: the space and the stack nodiDaEsplorare.
AggiungiSuccessore(st, nodoCorr, trans, nodoSucc) ==
    LET rif == RicercaNodo(st.sc, nodoSucc)
        nuovo == Len(st.sc.nodo) + 1
        sc1 == IF rif = 0 THEN AddNodoNuovo(st.sc, nodoSucc) ELSE st.sc
        pila1 == IF rif = 0 THEN Append(st.pila, nuovo) ELSE st.pila
        rif1 == IF rif = 0 THEN nuovo ELSE rif
    IN [sc |-> AddArco(sc1, Arco(nodoCorr, rif1, <<trans.nome>>, trans.rilevanza,
                                 trans.osservabilita)),
        pila |-> pila1]

\* the transitions tried from a node: for stato in nodoCorr.stati, for trans
\* in stato.transizioniUscenti
TransizioniDaProvare(r, nodo) ==
    Concat([i \in 1..Len(nodo.stati) |-> TransizioniUscenti(r, nodo.stati[i])])

RECURSIVE EsploraNodo(_, _, _)
\* the body of the for loops of creaSpazioComportamentale on nodoCorr
EsploraNodo(st, nodoCorr, daProvare) ==
    IF daProvare = <<>> THEN st
    ELSE LET trans == Head(daProvare)
             nodoSucc == VerificaFattibilitaTransizione(st.sc.nodo[nodoCorr], trans)
         IN EsploraNodo(IF nodoSucc # <<>>
                        THEN AggiungiSuccessore(st, nodoCorr, trans, nodoSucc[1])
                        ELSE st,
                        nodoCorr, Tail(daProvare))

\* an exploration that gives up after the node in hand
ProssimoNodoFermo(st) == [sc |-> st.sc, pila |-> st.pila, nodoCorr |-> 0]

\* lines 754-759: pop the next node to explore, 0 (None) when the stack is empty
ProssimoNodo(st) ==
    IF st.pila # <<>>
    THEN [sc |-> st.sc, pila |-> SubSeq(st.pila, 1, Len(st.pila) - 1),
          nodoCorr |-> st.pila[Len(st.pila)]]
    ELSE [sc |-> st.sc, pila |-> st.pila, nodoCorr |-> 0]

\* one iteration of the while loop of creaSpazioComportamentale
CreaPasso(r, st) ==
    ProssimoNodo(EsploraNodo([sc |-> st.sc, pila |-> st.pila], st.nodoCorr,
                             TransizioniDaProvare(r, st.sc.nodo[st.nodoCorr])))

RECURSIVE CreaCiclo(_, _)
CreaCiclo(r, st) == IF st.nodoCorr = 0 THEN st.sc ELSE CreaCiclo(r, CreaPasso(r, st))

\* SpazioComportamentale.creaSpazioComportamentale
CreaSpazioComportamentale(self, r) ==
    LET s1 == CreaNodoIniziale(self, r)
        s2 == [s1 EXCEPT !.nodi = Append(@, s1.nodoIniziale)]
    IN CreaCiclo(r, [sc |-> s2, pila |-> <<>>, nodoCorr |-> s2.nodoIniziale])

\* a transition that lets the observation through everywhere
FiltroAssente(oss, corr, trans) == TRUE

\* the test of lines 805-807: the transition is silent, or its label is the
\* next one of the observation
FiltroOsservazione(oss, corr, trans) ==
    \/ trans.osservabilita = ""
    \/ /\ corr.indiceOsservazione < Len(oss)
       /\ trans.osservabilita = oss[corr.indiceOsservazione + 1]

RECURSIVE EsploraNodoOL(_, _, _, _)
\* the body of the for loops of creaSpazioComportamentaleOsservazioneLineare
\* on nodoCorr: only the transitions that pass the filter are tried
EsploraNodoOL(oss, st, nodoCorr, daProvare) ==
    IF daProvare = <<>> THEN st
    ELSE LET trans == Head(daProvare)
             corr == st.sc.nodo[nodoCorr]
             fatt == IF FiltroOsservazione(oss, corr, trans) THEN VerificaFattibilitaTransizione(corr, trans) ELSE <<>>
             indice == IF trans.osservabilita = "" THEN corr.indiceOsservazione
                       ELSE corr.indiceOsservazione + 1
         IN EsploraNodoOL(oss,
                IF fatt # <<>>
                THEN AggiungiSuccessore(st, nodoCorr, trans,
                         [fatt[1] EXCEPT !.indiceOsservazione = indice,
                                         !.isFinale = @ /\ indice = Len(oss)])
                ELSE st,
                nodoCorr, Tail(daProvare))

CreaPassoOL(r, oss, st) ==
    ProssimoNodo(EsploraNodoOL(oss, [sc |-> st.sc, pila |-> st.pila], st.nodoCorr,
                               TransizioniDaProvare(r, st.sc.nodo[st.nodoCorr])))

RECURSIVE CreaCicloOL(_, _, _)
CreaCicloOL(r, oss, st) ==
    IF st.nodoCorr = 0 THEN st.sc ELSE CreaCicloOL(r, oss, CreaPassoOL(r, oss, st))

\* the initial node left accepting whatever the observation
InizioOLFinale(self, r, oss) ==
    LET s1 == CreaNodoIniziale(self, r)
    IN [s1 EXCEPT !.nodi = Append(@, s1.nodoIniziale)]

\* the space before the while loop of
\* creaSpazioComportamentaleOsservazioneLineare (lines 774-793)
InizioOL(self, r, oss) ==
    LET s1 == CreaNodoIniziale(self, r)
        s2 == [s1 EXCEPT !.nodo[s1.nodoIniziale] =
                  [@ EXCEPT !.indiceOsservazione = 0,
                            !.isFinale = @ /\ 0 = Len(oss)]]
    IN [s2 EXCEPT !.nodi = Append(@, s2.nodoIniziale)]

\* SpazioComportamentale.creaSpazioComportamentaleOsservazioneLineare: the
\* space after the call and the exception raised ("" for none)
CreaSpazioComportamentaleOsservazioneLineare(self, r, oss) ==
    IF ~VerificaOsservazioneLineare(r, oss)
    THEN [sc |-> self, errore |-> "ValueError"]
    ELSE LET s2 == InizioOL(self, r, oss)
         IN [sc |-> CreaCicloOL(r, oss, [sc |-> s2, pila |-> <<>>,
                                         nodoCorr |-> s2.nodoIniziale]),
             errore |-> ""]

(***************************************************************************)
(* SpazioComportamentale: pruning.                                         *)
(***************************************************************************)
\* SpazioComportamentale.setAllIsPotato
SetAllIsPotato(self, isPotato) ==
    [self EXCEPT
       !.arco = [a \in DOMAIN @ |-> IF a \in Range(self.archi)
                                    THEN [@[a] EXCEPT !.isPotato = isPotato] ELSE @[a]],
       !.nodo = [n \in DOMAIN @ |-> IF n \in Range(self.nodi)
                                    THEN [@[n] EXCEPT !.isPotato = isPotato] ELSE @[n]]]

RECURSIVE RisaliArchiSempre(_, _, _, _)
\* every edge entering nodoCorrente is pushed, whatever the mark of its source
RisaliArchiSempre(self, pila, nodoCorrente, i) ==
    IF i > Len(self.archi) THEN [sc |-> self, pila |-> pila]
    ELSE IF NodoEq(self.nodo[self.arco[self.archi[i]].nodo1], self.nodo[nodoCorrente])
         THEN RisaliArchiSempre([self EXCEPT !.arco[self.archi[i]].isPotato = FALSE],
                                Append(pila, self.archi[i]), nodoCorrente, i + 1)
         ELSE RisaliArchiSempre(self, pila, nodoCorrente, i + 1)

RECURSIVE RisaliArchi(_, _, _, _)
\* the for loop of lines 955-961 from position i of self.archi: an edge
\* entering nodoCorrente is kept, and pushed when its source is still marked
RisaliArchi(self, pila, nodoCorrente, i) ==
    IF i > Len(self.archi) THEN [sc |-> self, pila |-> pila]
    ELSE LET a == self.archi[i]
             arco == self.arco[a]
         IN IF NodoEq(self.nodo[arco.nodo1], self.nodo[nodoCorrente])
            THEN RisaliArchi([self EXCEPT !.arco[a].isPotato = FALSE],
                             IF self.nodo[arco.nodo0].isPotato THEN Append(pila, a)
                             ELSE pila,
                             nodoCorrente, i + 1)
            ELSE RisaliArchi(self, pila, nodoCorrente, i + 1)

\* an iteration that ends the walk after the first node
RisaliPassoFermo(st) ==
    [sc |-> RisaliArchi([st.sc EXCEPT !.nodo[st.nodoCorrente].isPotato = FALSE],
                        st.pila, st.nodoCorrente, 1).sc,
     pila |-> <<>>, nodoCorrente |-> 0]

\* one iteration of the while loop of decidiPotatura (lines 953-971);
\* nodoCorrente becomes 0 when nextArco is None
RisaliPasso(st) ==
    LET s1 == [st.sc EXCEPT !.nodo[st.nodoCorrente].isPotato = FALSE]
        r == RisaliArchi(s1, st.pila, st.nodoCorrente, 1)
    IN IF r.pila # <<>>
       THEN [sc |-> r.sc, pila |-> SubSeq(r.pila, 1, Len(r.pila) - 1),
             nodoCorrente |-> r.sc.arco[r.pila[Len(r.pila)]].nodo0]
       ELSE [sc |-> r.sc, pila |-> r.pila, nodoCorrente |-> 0]

RECURSIVE RisaliCiclo(_)
RisaliCiclo(st) == IF st.nodoCorrente = 0 THEN st.sc ELSE RisaliCiclo(RisaliPasso(st))

RECURSIVE DecidiDa(_, _)
\* the for loop of decidiPotatura over self.nodi from position i
DecidiDa(self, i) ==
    IF i > Len(self.nodi) THEN self
    ELSE LET n == self.nodi[i]
         IN IF self.nodo[n].isFinale /\ self.nodo[n].isPotato
            THEN DecidiDa(RisaliCiclo([sc |-> self, pila |-> <<>>, nodoCorrente |-> n]),
                          i + 1)
            ELSE DecidiDa(self, i + 1)

\* a decision that keeps every node and every edge
DecidiNiente(self) == SetAllIsPotato(self, FALSE)

\* SpazioComportamentale.decidiPotatura
DecidiPotatura(self) == DecidiDa(SetAllIsPotato(self, TRUE), 1)

\* SpazioComportamentale.potaturaArchi
PotaturaArchi(self) ==
    LET vivo(a) == ~self.arco[a].isPotato
    IN [self EXCEPT
          !.archi = SelectSeq(@, vivo),
          !.nodo = [n \in DOMAIN @ |->
                      IF n \in Range(self.nodi)
                      THEN [@[n] EXCEPT !.archiUscenti = SelectSeq(@, vivo)]
                      ELSE @[n]]]

\* SpazioComportamentale.potatura
Potatura(self) ==
    LET potati == {n \in Range(self.nodi) : self.nodo[n].isPotato}
        s1 == [self EXCEPT
                 !.arco = [a \in DOMAIN @ |->
                             IF a \in Range(self.archi)
                                /\ (@[a].nodo0 \in potati \/ @[a].nodo1 \in potati)
                             THEN [@[a] EXCEPT !.isPotato = TRUE] ELSE @[a]],
                 !.nodi = SelectSeq(@, LAMBDA n : ~self.nodo[n].isPotato)]
    IN PotaturaArchi(s1)

\* the survivors keep the names they had
RidenominaNiente(self) == self

\* lines 1045-1053: the surviving nodes are named "0", "1", ... and the
\* initial node is looked up by value
Ridenomina(self) ==
    LET s1 == [self EXCEPT
                 !.nodo = [n \in DOMAIN @ |->
                             IF n \in Range(self.nodi)
                             THEN [@[n] EXCEPT !.nome =
                                     ToString(PrimoIndice(self.nodi, LAMBDA m : m = n) - 1)]
                             ELSE @[n]]]
    IN [s1 EXCEPT !.nodoIniziale = RicercaNodo(s1, s1.nodo[s1.nodoIniziale])]

\* a test that finds no space empty
SpazioMaiVuoto(self) == FALSE

\* the test of lines 1019 and 1057
SpazioVuoto(self) == self.nodi = <<>> \/ self.archi = <<>>

\* SpazioComportamentale.potaturaRidenominazione: the space after the call
\* and the exception raised ("" for none)
PotaturaRidenominazione(self) ==
    IF SpazioVuoto(self) THEN [sc |-> self, errore |-> "ValueError"]
    ELSE LET s1 == Ridenomina(Potatura(DecidiPotatura(self)))
         IN [sc |-> s1, errore |-> IF SpazioVuoto(s1) THEN "ValueError" ELSE ""]

(***************************************************************************)
(* Relevance strings.  The character e stands for the empty-word symbol;   *)
(* "|".join(set) depends on the hash order of the run, modelled by seme:   *)
(* ascending (0) or descending (1) lexicographic order.                    *)
(***************************************************************************)
Eps == "e"

Alfabeto == <<"(", ")", "*", "|", "a", "b", "c", "d", Eps, "f">>

Rango(c) == PrimoIndice(Alfabeto, LAMBDA x : x = c)

RECURSIVE Minore(_, _)
Minore(u, v) ==
    IF u = <<>> THEN v # <<>>
    ELSE IF v = <<>> THEN FALSE
    ELSE IF Head(u) = Head(v) THEN Minore(Tail(u), Tail(v))
    ELSE Rango(Head(u)) < Rango(Head(v))

RECURSIVE Ordina(_)
\* the iteration order of a set of strings in this run
Ordina(S) ==
    IF S = {} THEN <<>>
    ELSE LET primo == CHOOSE u \in S : \A v \in S \ {u} :
                          IF seme = 0 THEN Minore(u, v) ELSE Minore(v, u)
         IN <<primo>> \o Ordina(S \ {primo})

RECURSIVE UnisciSeq(_)
UnisciSeq(ss) ==
    IF ss = <<>> THEN <<>>
    ELSE IF Len(ss) = 1 THEN ss[1]
    ELSE ss[1] \o <<"|">> \o UnisciSeq(Tail(ss))

\* "|".join(alternative)
Unisci(alternative) == UnisciSeq(Ordina(alternative))

\* the common ending of the composition functions: a single alternative is
\* returned as it is ("" for the empty word), several are joined by "|"
Componi(alternative) ==
    IF Cardinality(alternative) = 1
    THEN LET unica == CHOOSE u \in alternative : TRUE
         IN IF unica = <<Eps>> THEN <<>> ELSE unica
    ELSE Unisci(alternative)

RECURSIVE Scansiona(_, _, _, _, _)
\* the for loop of estraiAlternative from position i
Scansiona(expreg, i, par, buffer, alternative) ==
    IF i > Len(expreg)
    THEN IF buffer # <<>> THEN alternative \cup {buffer} ELSE alternative
    ELSE LET c == expreg[i]
         IN IF c = "|" /\ par = 0
            THEN Scansiona(expreg, i + 1, par, <<>>, alternative \cup {buffer})
            ELSE Scansiona(expreg, i + 1,
                           IF c = "(" THEN par + 1 ELSE IF c = ")" THEN par - 1 ELSE par,
                           Append(buffer, c), alternative)

\* SpazioComportamentale.estraiAlternative, as a set
EstraiAlternative(expreg) ==
    IF expreg = <<>> \/ expreg = <<Eps>> THEN {<<Eps>>}
    ELSE Scansiona(expreg, 1, 0, <<>>, {})

\* ab + mezzo + aa with the empty-word symbol dropped from ab and aa and
\* restored when the result is empty
Giustapponi(ab, mezzo, aa) ==
    LET res == (IF ab = <<Eps>> THEN <<>> ELSE ab) \o mezzo
               \o (IF aa = <<Eps>> THEN <<>> ELSE aa)
    IN IF res = <<>> THEN <<Eps>> ELSE res

\* SpazioComportamentale.concatenaRilevanza
ConcatenaRilevanza(base, aggiunta) ==
    Componi({Giustapponi(ab, <<>>, aa) :
                ab \in EstraiAlternative(base), aa \in EstraiAlternative(aggiunta)})

\* SpazioComportamentale.alternativaRilevanza
AlternativaRilevanza(base, aggiunta) ==
    Componi(EstraiAlternative(base) \cup EstraiAlternative(aggiunta))

RECURSIVE ComponiSerieDa(_, _)
ComponiSerieDa(strRilevanza, rilevanze) ==
    IF rilevanze = <<>> THEN strRilevanza
    ELSE ComponiSerieDa(ConcatenaRilevanza(strRilevanza, Head(rilevanze)), Tail(rilevanze))

\* the relevances of the edges joined from the last to the first
ComponiSerieRovescia(rilevanze) ==
    ComponiSerieDa(<<>>, [i \in DOMAIN rilevanze |-> rilevanze[Len(rilevanze) - i + 1]])

\* SpazioComportamentale.componiStrRilevanzaSerie on the relevances of the edges
ComponiStrRilevanzaSerie(rilevanze) == ComponiSerieDa(<<>>, rilevanze)

\* the relevance of the first edge of the parallel alone
ComponiParalleloPrimo(rilevanze) == rilevanze[1]

\* SpazioComportamentale.componiStrRilevanzaParallelo on the relevances of the edges
ComponiStrRilevanzaParallelo(rilevanze) ==
    IF Len(rilevanze) = 1 THEN rilevanze[1]
    ELSE Componi(UNION {EstraiAlternative(rilevanze[i]) : i \in DOMAIN rilevanze})

\* the entering and the leaving relevance joined, whatever the loop
ComponiSenzaCappio(entrante, cappio, uscente) == ConcatenaRilevanza(entrante, uscente)

\* SpazioComportamentale.componiStrRilevanzaNodoIntermedio on the relevances
\* of the three edges; cappio is <<>> for None, else <<relevance>>
ComponiStrRilevanzaNodoIntermedio(entrante, cappio, uscente) ==
    LET ril_cappio == IF cappio # <<>> /\ cappio[1] # <<>> /\ cappio[1] # <<Eps>>
                      THEN <<"(">> \o cappio[1] \o <<")", "*">>
                      ELSE <<>>
    IN Componi({Giustapponi(ae, ril_cappio, au) :
                   ae \in EstraiAlternative(entrante), au \in EstraiAlternative(uscente)})

(***************************************************************************)
(* SpazioComportamentale.espressioneRegolare.                              *)
(***************************************************************************)
\* the relevances of a list of edges
Rilevanze(self, lista) == [i \in DOMAIN lista |-> self.arco[lista[i]].rilevanza]

\* lines 1083-1087: the edges of self.archi entering node n
NumeroArchiEntranti(self, n) ==
    Cardinality({i \in DOMAIN self.archi : self.arco[self.archi[i]].nodo1 = n})

RECURSIVE SeguiSerie(_, _, _)
\* the while loop of trovaSerieArchi from edge t
SeguiSerie(self, t, sequenza) ==
    LET n1 == self.arco[t].nodo1
        uscenti == self.nodo[n1].archiUscenti
    IN IF Len(uscenti) = 1
       THEN IF NumeroArchiEntranti(self, n1) = 1
            THEN SeguiSerie(self, uscenti[1], Append(sequenza, t))
            ELSE Append(sequenza, t)
       ELSE IF sequenza # <<>> THEN Append(sequenza, t) ELSE sequenza

\* SpazioComportamentale.trovaSerieArchi
TrovaSerieArchi(self) ==
    LET candidati == Concat([i \in DOMAIN self.nodi |->
                                self.nodo[self.nodi[i]].archiUscenti])
        k == PrimoIndice(candidati, LAMBDA t : Len(SeguiSerie(self, t, <<>>)) >= 2)
    IN IF k = 0 THEN <<>> ELSE SeguiSerie(self, candidati[k], <<>>)

\* the body of the outer loop of trovaParalleloArchi for node n: <<>> when
\* no target is met twice among the outgoing edges
ParalleloDa(self, n) ==
    LET uscenti == self.nodo[n].archiUscenti
        visto(j) == \E k \in 1..(j - 1) :
                       NodoEq(self.nodo[self.arco[uscenti[j]].nodo1],
                              self.nodo[self.arco[uscenti[k]].nodo1])
    IN IF \E j \in DOMAIN uscenti : visto(j)
       THEN LET j == CHOOSE j \in DOMAIN uscenti :
                        visto(j) /\ \A k \in 1..(j - 1) : ~visto(k)
            IN SelectSeq(uscenti,
                         LAMBDA b : self.arco[b].nodo1 = self.arco[uscenti[j]].nodo1)
       ELSE <<>>

\* SpazioComportamentale.trovaParalleloArchi
TrovaParalleloArchi(self) ==
    LET k == PrimoIndice(self.nodi, LAMBDA n : ParalleloDa(self, n) # <<>>)
    IN IF k = 0 THEN <<>> ELSE ParalleloDa(self, self.nodi[k])

\* no copy: the object itself
DeepCopyStesso(self) == [sc |-> self, alias |-> TRUE]

\* copy.deepcopy of a space: the copy, and whether the result is the very
\* object it was taken from
DeepCopy(self) == [sc |-> self, alias |-> FALSE]

\* lines 1176-1202: a new initial node n0 when an edge enters the initial node
NormalizzaIniziale(scN) ==
    IF \E i \in DOMAIN scN.archi : scN.arco[scN.archi[i]].nodo1 = scN.nodoIniziale
    THEN LET s1 == AddNodoNuovo(scN, [NodoNuovo EXCEPT !.nome = "n0", !.isPotato = FALSE,
                                                    !.isFinale = FALSE])
             n0 == Len(s1.nodo)
         IN [sc |-> AddArco(s1, [Arco(n0, scN.nodoIniziale, <<>>, <<>>, "")
                                    EXCEPT !.isPotato = FALSE]),
             n0 |-> n0]
    ELSE [sc |-> scN, n0 |-> scN.nodoIniziale]

RECURSIVE ArchiVersoNq(_, _, _)
\* lines 1227-1231
ArchiVersoNq(scN, statiAccettazione, nq) ==
    IF statiAccettazione = <<>> THEN scN
    ELSE ArchiVersoNq(AddArco(scN, [Arco(Head(statiAccettazione), nq, <<>>, <<>>, "")
                                       EXCEPT !.isPotato = FALSE]),
                      Tail(statiAccettazione), nq)

\* a new final node nq whatever the acceptance nodes are
NormalizzaFinaleSempre(scN) ==
    LET statiAccettazione == SelectSeq(scN.nodi, LAMBDA n : scN.nodo[n].isFinale)
        s1 == [scN EXCEPT !.nodo = [n \in DOMAIN @ |-> [@[n] EXCEPT !.isFinale = FALSE]]]
        s2 == AddNodoNuovo(s1, [NodoNuovo EXCEPT !.nome = "nq", !.isPotato = FALSE,
                                                 !.isFinale = TRUE])
    IN [sc |-> ArchiVersoNq(s2, statiAccettazione, Len(s2.nodo)), nq |-> Len(s2.nodo)]

\* lines 1206-1234: a new final node nq unless there is a single acceptance
\* node without outgoing edges; nq is 0 when statiAccettazione[0] does not exist
NormalizzaFinale(scN) ==
    LET statiAccettazione == SelectSeq(scN.nodi, LAMBDA n : scN.nodo[n].isFinale)
    IN IF \/ Len(statiAccettazione) > 1
          \/ /\ Len(statiAccettazione) = 1
             /\ Len(scN.nodo[statiAccettazione[1]].archiUscenti) >= 1
       THEN LET s1 == [scN EXCEPT !.nodo = [n \in DOMAIN @ |->
                          IF n \in Range(statiAccettazione)
                          THEN [@[n] EXCEPT !.isFinale = FALSE] ELSE @[n]]]
                s2 == AddNodoNuovo(s1, [NodoNuovo EXCEPT !.nome = "nq",
                                           !.isPotato = FALSE, !.isFinale = TRUE])
            IN [sc |-> ArchiVersoNq(s2, statiAccettazione, Len(s2.nodo)),
                nq |-> Len(s2.nodo)]
       ELSE [sc |-> scN,
             nq |-> IF statiAccettazione = <<>> THEN 0 ELSE statiAccettazione[1]]

\* mark the edges and nodes of the sets given
Marca(self, archi, nodi) ==
    [self EXCEPT
       !.arco = [a \in DOMAIN @ |-> IF a \in archi THEN [@[a] EXCEPT !.isPotato = TRUE]
                                    ELSE @[a]],
       !.nodo = [n \in DOMAIN @ |-> IF n \in nodi THEN [@[n] EXCEPT !.isPotato = TRUE]
                                    ELSE @[n]]]

\* lines 1247-1275: a series is replaced by one edge
RiduciSerie(scN, serie) ==
    LET nodoInizioSerie == scN.arco[serie[1]].nodo0
        nodoFineSerie == scN.arco[serie[Len(serie)]].nodo1
        interni == {scN.arco[serie[i]].nodo1 : i \in DOMAIN serie} \ {nodoFineSerie}
        s1 == Potatura(Marca(SetAllIsPotato(scN, FALSE), Range(serie), interni))
    IN AddArco(s1, Arco(nodoInizioSerie, nodoFineSerie, <<>>,
                        ComponiStrRilevanzaSerie(Rilevanze(scN, serie)), ""))

\* the edge of the parallel is added and the parallel is kept
RiduciParalleloTiene(scN, parallelo) ==
    AddArco(SetAllIsPotato(scN, FALSE),
            [Arco(scN.arco[parallelo[1]].nodo0, scN.arco[parallelo[1]].nodo1, <<>>,
                  ComponiStrRilevanzaParallelo(Rilevanze(scN, parallelo)), "")
               EXCEPT !.isPotato = FALSE])

\* lines 1280-1304: a parallel is replaced by one edge
RiduciParallelo(scN, parallelo) ==
    LET s1 == Marca(SetAllIsPotato(scN, FALSE), Range(parallelo), {})
        a == [Arco(scN.arco[parallelo[1]].nodo0, scN.arco[parallelo[1]].nodo1, <<>>,
                   ComponiStrRilevanzaParallelo(Rilevanze(scN, parallelo)), "")
                EXCEPT !.isPotato = FALSE]
    IN PotaturaArchi(AddArco(s1, a))

RECURSIVE AggiungiArchi(_, _)
AggiungiArchi(self, nuovi) ==
    IF nuovi = <<>> THEN self ELSE AggiungiArchi(AddArco(self, Head(nuovi)), Tail(nuovi))

\* lines 1312-1364: the first node that is neither n0 nor nq is removed, each
\* pair of an entering and a leaving edge replaced by one edge
RiduciNodoIntermedio(scN, n0, nq) ==
    LET s0 == SetAllIsPotato(scN, FALSE)
        i == PrimoIndice(s0.nodi, LAMBDA n : n # n0 /\ n # nq)
    IN IF i = 0 THEN s0
       ELSE LET nodoIntermedio == s0.nodi[i]
                uscenti == s0.nodo[nodoIntermedio].archiUscenti
                k == PrimoIndice(uscenti, LAMBDA a : s0.arco[a].nodo1 = nodoIntermedio)
                cappio == IF k = 0 THEN <<>> ELSE <<s0.arco[uscenti[k]].rilevanza>>
                entranti == SelectSeq(s0.archi,
                                LAMBDA a : /\ s0.arco[a].nodo1 = nodoIntermedio
                                           /\ s0.arco[a].nodo0 # nodoIntermedio)
                fuori == SelectSeq(uscenti, LAMBDA a : s0.arco[a].nodo1 # nodoIntermedio)
                nuovi == Concat([e \in DOMAIN entranti |->
                            [u \in DOMAIN fuori |->
                               [Arco(s0.arco[entranti[e]].nodo0, s0.arco[fuori[u]].nodo1,
                                     <<>>,
                                     ComponiStrRilevanzaNodoIntermedio(
                                         s0.arco[entranti[e]].rilevanza, cappio,
                                         s0.arco[fuori[u]].rilevanza), "")
                                  EXCEPT !.isPotato = FALSE]]])
            IN Potatura(AggiungiArchi(Marca(s0, {}, {nodoIntermedio}), nuovi))

\* one iteration of the while loop of espressioneRegolare (lines 1243-1364):
\* series first, then parallel, then an intermediate node
RiduciPasso(scN, n0, nq) ==
    LET serie == TrovaSerieArchi(scN)
        parallelo == TrovaParalleloArchi(scN)
    IN IF serie # <<>> THEN RiduciSerie(scN, serie)
       ELSE IF parallelo # <<>> THEN RiduciParallelo(scN, parallelo)
       ELSE RiduciNodoIntermedio(scN, n0, nq)

RECURSIVE RiduciCiclo(_, _, _)
RiduciCiclo(scN, n0, nq) ==
    IF Len(scN.archi) > 1 THEN RiduciCiclo(RiduciPasso(scN, n0, nq), n0, nq) ELSE scN

\* SpazioComportamentale.espressioneRegolare: the string returned, the
\* exception raised ("" for none) and the space self after the call
EspressioneRegolare(self) ==
    LET copia == DeepCopy(self)
    IN Sia(NormalizzaIniziale(copia.sc), LAMBDA i :
       Sia(NormalizzaFinale(i.sc), LAMBDA f :
       Sia(IF f.nq = 0 THEN f.sc ELSE RiduciCiclo(f.sc, i.n0, f.nq), LAMBDA fine :
         [ret |-> IF f.nq = 0 \/ fine.archi = <<>> THEN <<>>
                  ELSE fine.arco[fine.archi[1]].rilevanza,
          errore |-> IF f.nq = 0 \/ fine.archi = <<>> THEN "IndexError" ELSE "",
          self |-> IF copia.alias THEN fine ELSE self])))

(***************************************************************************)
(* Chiusura: a silent closure of a space.  The closure attached to a node  *)
(* is a record [nodi, archi, nodoIniziale, nodiUscita, nodiAccettazione,   *)
(* decorazioni, diagnosi] of references into the heaps of the space;       *)
(* decorazioni is the dictionary from node identities to strings and       *)
(* diagnosi is <<>> for None.                                              *)
(***************************************************************************)
\* Chiusura.__init__, then lines 1391-1393
ChiusuraNuova(nodoIngresso) ==
    [nodi |-> <<nodoIngresso>>, archi |-> <<>>, nodoIniziale |-> nodoIngresso,
     nodiUscita |-> <<>>, nodiAccettazione |-> <<>>, decorazioni |-> <<>>,
     diagnosi |-> <<>>]

\* nodo in lista, by value as the in operator of a list of Nodo does
NodoIn(self, nodo, lista) ==
    \E i \in DOMAIN lista : lista[i] = nodo \/ NodoEq(self.nodo[nodo], self.nodo[lista[i]])

RECURSIVE VisitaUscenti(_, _, _)
\* the for loop of lines 1407-1418 over the outgoing edges of nodoCorr
VisitaUscenti(self, st, uscenti) ==
    IF uscenti = <<>> THEN st
    ELSE LET a == Head(uscenti)
             n1 == self.arco[a].nodo1
         IN IF self.arco[a].osservabilita = ""
            THEN LET nuovo == ~NodoIn(self, n1, st.ch.nodi)
                 IN VisitaUscenti(self,
                       [st EXCEPT !.ch.archi = Append(@, a),
                                  !.ch.nodi = IF nuovo THEN Append(@, n1) ELSE @,
                                  !.pila = IF nuovo THEN Append(@, n1) ELSE @],
                       Tail(uscenti))
            ELSE VisitaUscenti(self, [st EXCEPT !.isUscita = TRUE, !.isAccettazione = TRUE],
                               Tail(uscenti))

\* an iteration that never records an exit node
ChiusuraPassoSenzaUscita(self, st) ==
    LET nodoCorr == st.pila[Len(st.pila)]
        v == VisitaUscenti(self,
                 [ch |-> st.ch, pila |-> SubSeq(st.pila, 1, Len(st.pila) - 1),
                  isUscita |-> FALSE, isAccettazione |-> self.nodo[nodoCorr].isFinale],
                 self.nodo[nodoCorr].archiUscenti)
    IN [ch |-> [v.ch EXCEPT
                  !.nodiAccettazione = IF v.isAccettazione THEN Append(@, nodoCorr) ELSE @],
        pila |-> v.pila]

\* one iteration of the while loop of generaChiusuraSilenziosaDecorata
ChiusuraPasso(self, st) ==
    LET nodoCorr == st.pila[Len(st.pila)]
        v == VisitaUscenti(self,
                 [ch |-> st.ch, pila |-> SubSeq(st.pila, 1, Len(st.pila) - 1),
                  isUscita |-> FALSE, isAccettazione |-> self.nodo[nodoCorr].isFinale],
                 self.nodo[nodoCorr].archiUscenti)
    IN [ch |-> [v.ch EXCEPT
                  !.nodiUscita = IF v.isUscita THEN Append(@, nodoCorr) ELSE @,
                  !.nodiAccettazione = IF v.isAccettazione THEN Append(@, nodoCorr) ELSE @],
        pila |-> v.pila]

RECURSIVE ChiusuraCiclo(_, _)
ChiusuraCiclo(self, st) ==
    IF st.pila = <<>> THEN st.ch ELSE ChiusuraCiclo(self, ChiusuraPasso(self, st))

\* lines 1391-1425: the closure of nodoIngresso before its decorations
ChiusuraSilenziosa(self, nodoIngresso) ==
    ChiusuraCiclo(self, [ch |-> ChiusuraNuova(nodoIngresso), pila |-> <<nodoIngresso>>])

\* pedici.get(id(a), None): <<>> for None
PediceDi(pedici, a) ==
    LET i == PrimoIndice(pedici, LAMBDA e : e.arco = a)
    IN IF i = 0 THEN <<>> ELSE <<pedici[i].nodo>>

\* no entry is ever taken out of the map
TogliPediciNiente(pedici, insieme) == pedici

\* pedici.pop(id(a)) for every a of the set
TogliPedici(pedici, insieme) == SelectSeq(pedici, LAMBDA e : e.arco \notin insieme)

\* no subscript is ever recorded
MettiPediceMai(pedici, a, pedice) == pedici

\* pedici[id(a)] = pedice when pedice is not None
MettiPedice(pedici, a, pedice) ==
    IF pedice = <<>> THEN pedici ELSE Append(pedici, [arco |-> a, nodo |-> pedice[1]])

\* the subscripts are never looked at
EsistonoPiuArchiMai(scN, pedici) == FALSE

\* Chiusura.esistonoPiuArchiStessoPedice
EsistonoPiuArchiStessoPedice(scN, pedici) ==
    IF pedici = <<>> THEN Len(scN.archi) > 1
    ELSE \/ Len(scN.archi) - Len(pedici) > 1
         \/ \E i, j \in DOMAIN pedici : i # j /\ pedici[i].nodo = pedici[j].nodo

\* equality of the pairs (a.nodo1, pedice_a) kept in nodiOsservati
CoppiaEq(scN, n1, p1, n2, p2) ==
    /\ n1 = n2 \/ NodoEq(scN.nodo[n1], scN.nodo[n2])
    /\ \/ p1 = <<>> /\ p2 = <<>>
       \/ /\ p1 # <<>>
          /\ p2 # <<>>
          /\ (p1[1] = p2[1] \/ NodoEq(scN.nodo[p1[1]], scN.nodo[p2[1]]))

\* Chiusura.trovaParalleloArchiStessoPedice: the return of line 1905 is
\* inside the loop over self.nodi, so only the first node is examined
TrovaParalleloArchiStessoPedice(scN, pedici) ==
    IF scN.nodi = <<>> THEN <<>>
    ELSE LET uscenti == scN.nodo[scN.nodi[1]].archiUscenti
             n1(j) == scN.arco[uscenti[j]].nodo1
             ped(j) == PediceDi(pedici, uscenti[j])
             visto(j) == \E k \in 1..(j - 1) : CoppiaEq(scN, n1(j), ped(j), n1(k), ped(k))
         IN IF \E j \in DOMAIN uscenti : visto(j)
            THEN LET j == CHOOSE j \in DOMAIN uscenti :
                             visto(j) /\ \A k \in 1..(j - 1) : ~visto(k)
                 IN SelectSeq(uscenti, LAMBDA b : /\ scN.arco[b].nodo1 = n1(j)
                                                  /\ PediceDi(pedici, b) = ped(j))
            ELSE <<>>

\* decorazioni.get(id(n), "")
DecorazioneDi(decorazioni, n) ==
    LET i == PrimoIndice(decorazioni, LAMBDA e : e.nodo = n)
    IN IF i = 0 THEN <<>> ELSE decorazioni[i].rilevanza

\* decorazioni[id(n)] = rilevanza
Decora(decorazioni, n, rilevanza) ==
    IF \E i \in DOMAIN decorazioni : decorazioni[i].nodo = n
    THEN [i \in DOMAIN decorazioni |->
            IF decorazioni[i].nodo = n THEN [nodo |-> n, rilevanza |-> rilevanza]
            ELSE decorazioni[i]]
    ELSE Append(decorazioni, [nodo |-> n, rilevanza |-> rilevanza])

\* no copy: the closure itself
DeepCopyChiusuraStessa(self) == [sc |-> self, alias |-> TRUE]

\* copy.deepcopy of a closure (line 1931): the copy, and whether the result
\* is the very object it was taken from
DeepCopyChiusura(self) == [sc |-> self, alias |-> FALSE]

\* lines 1935-1937: the observable edges leave the adjacency lists of the
\* exit nodes of the copy
TogliOsservabili(scN) ==
    [scN EXCEPT !.nodo = [n \in DOMAIN @ |->
        IF n \in Range(scN.nodiUscita)
        THEN [@[n] EXCEPT !.archiUscenti =
                 SelectSeq(@, LAMBDA a : scN.arco[a].osservabilita = "")]
        ELSE @[n]]]

\* lines 1983-1998: the new final node nq and an edge to it from every
\* acceptance node of the closure
NormalizzaFinaleChiusura(scN) ==
    LET s1 == AddNodoNuovo(scN, [NodoNuovo EXCEPT !.nome = "nq", !.isPotato = FALSE,
                                                 !.isFinale = TRUE])
    IN [sc |-> ArchiVersoNq(s1, scN.nodiAccettazione, Len(s1.nodo)), nq |-> Len(s1.nodo)]

\* lines 2025-2103: a series without subscripts, or whose last edge only has
\* one, is replaced by one edge
RiduciSerieChiusura(st, serie) ==
    LET scN == st.sc
        ultimo == serie[Len(serie)]
        nodoInizioSerie == scN.arco[serie[1]].nodo0
        nodoPenultimoSerie == scN.arco[ultimo].nodo0
        nodoFineSerie == scN.arco[ultimo].nodo1
        soloUltimo == PediceDi(st.pedici, ultimo) # <<>>
        intera == \/ soloUltimo
                  \/ /\ nodoFineSerie # st.nq
                     /\ ~NodoIn(scN, nodoPenultimoSerie, scN.nodiAccettazione)
        pedice == IF soloUltimo THEN PediceDi(st.pedici, ultimo)
                  ELSE IF intera THEN <<>> ELSE <<nodoPenultimoSerie>>
        strRilevanza == ComponiStrRilevanzaSerie(Rilevanze(scN,
                            IF intera THEN serie ELSE SubSeq(serie, 1, Len(serie) - 1)))
        interni == {scN.arco[serie[i]].nodo1 : i \in DOMAIN serie} \ {nodoFineSerie}
        s1 == Potatura(Marca(SetAllIsPotato(scN, FALSE), Range(serie), interni))
        s2 == AddArco(s1, [Arco(nodoInizioSerie, nodoFineSerie, <<>>, strRilevanza, "")
                             EXCEPT !.isPotato = FALSE])
    IN [st EXCEPT !.sc = s2,
                  !.pedici = MettiPedice(TogliPedici(st.pedici, Range(serie)),
                                         Len(s2.arco), pedice)]

\* lines 2108-2141: a parallel with one subscript is replaced by one edge
RiduciParalleloChiusura(st, parallelo) ==
    LET scN == st.sc
        a == [Arco(scN.arco[parallelo[1]].nodo0, scN.arco[parallelo[1]].nodo1, <<>>,
                   ComponiStrRilevanzaParallelo(Rilevanze(scN, parallelo)), "")
                EXCEPT !.isPotato = FALSE]
        s1 == AddArco(SetAllIsPotato(scN, FALSE), a)
    IN [st EXCEPT !.sc = PotaturaArchi(Marca(s1, Range(parallelo), {})),
                  !.pedici = TogliPedici(MettiPedice(st.pedici, Len(s1.arco),
                                                     PediceDi(st.pedici, parallelo[1])),
                                         Range(parallelo))]

\* lines 2170-2181: the label of the first self-loop of the node
StrRilevanzaCappio(cappio) ==
    IF cappio = <<>> THEN <<>>
    ELSE IF Len(cappio[1]) = 1 THEN cappio[1] \o <<"*">>
    ELSE IF Len(cappio[1]) > 1 THEN <<"(">> \o cappio[1] \o <<")", "*">>
    ELSE <<>>

RECURSIVE AggiungiArchiPedici(_, _)
\* the edges of lines 2185-2221 are added one after the other, each with
\* its subscript
AggiungiArchiPedici(st, nuovi) ==
    IF nuovi = <<>> THEN st
    ELSE LET s1 == AddArco(st.sc, Head(nuovi).arco)
         IN AggiungiArchiPedici(
               [st EXCEPT !.sc = s1,
                          !.pedici = MettiPedice(@, Len(s1.arco), Head(nuovi).pedice)],
               Tail(nuovi))

\* lines 2143-2230: the first node that is neither n0 nor nq is removed; the
\* new labels are the plain concatenation of the three labels
RiduciNodoIntermedioChiusura(st) ==
    LET s0 == SetAllIsPotato(st.sc, FALSE)
        i == PrimoIndice(s0.nodi, LAMBDA n : n # st.n0 /\ n # st.nq)
    IN IF i = 0 THEN [st EXCEPT !.sc = s0]
       ELSE LET nodoIntermedio == s0.nodi[i]
                uscenti == s0.nodo[nodoIntermedio].archiUscenti
                k == PrimoIndice(uscenti, LAMBDA a : s0.arco[a].nodo1 = nodoIntermedio)
                cappio == IF k = 0 THEN <<>> ELSE <<s0.arco[uscenti[k]].rilevanza>>
                entranti == SelectSeq(s0.archi,
                                LAMBDA a : /\ s0.arco[a].nodo1 = nodoIntermedio
                                           /\ s0.arco[a].nodo0 # nodoIntermedio)
                fuori == SelectSeq(uscenti, LAMBDA a : s0.arco[a].nodo1 # nodoIntermedio)
                pediceNuovo(u) ==
                    IF PediceDi(st.pedici, u) # <<>> THEN PediceDi(st.pedici, u)
                    ELSE IF /\ s0.arco[u].nodo1 = st.nq
                            /\ NodoIn(s0, s0.arco[u].nodo0, s0.nodiAccettazione)
                    THEN <<s0.arco[u].nodo0>>
                    ELSE <<>>
                nuovi == Concat([e \in DOMAIN entranti |->
                            [u \in DOMAIN fuori |->
                               [arco |-> [Arco(s0.arco[entranti[e]].nodo0,
                                               s0.arco[fuori[u]].nodo1, <<>>,
                                               s0.arco[entranti[e]].rilevanza
                                                  \o StrRilevanzaCappio(cappio)
                                                  \o s0.arco[fuori[u]].rilevanza, "")
                                            EXCEPT !.isPotato = FALSE],
                                pedice |-> pediceNuovo(fuori[u])]]])
                daRimuovere == (IF k = 0 THEN {} ELSE {uscenti[k]})
                               \cup Range(entranti)
                               \cup (IF entranti = <<>> THEN {} ELSE Range(fuori))
                s1 == AggiungiArchiPedici(
                          [st EXCEPT !.sc = Marca(s0, {}, {nodoIntermedio})], nuovi)
            IN [s1 EXCEPT !.sc = Potatura(@), !.pedici = TogliPedici(@, daRimuovere)]

\* lines 2003-2025: the series found can be reduced
SerieAmmessa(serie, pedici) ==
    /\ serie # <<>>
    /\ \A i \in 1..(Len(serie) - 1) : PediceDi(pedici, serie[i]) = <<>>

\* one iteration of the while loop of Chiusura.espressioniRegolari; st is
\* the working copy, the subscripts and the nodes n0 and nq
RiduciPassoChiusura(st) ==
    LET serie == TrovaSerieArchi(st.sc)
        parallelo == TrovaParalleloArchiStessoPedice(st.sc, st.pedici)
    IN IF SerieAmmessa(serie, st.pedici) THEN RiduciSerieChiusura(st, serie)
       ELSE IF parallelo # <<>> THEN RiduciParalleloChiusura(st, parallelo)
       ELSE RiduciNodoIntermedioChiusura(st)

\* the condition of the while loop of line 2001
DaRidurre(st) == Len(st.sc.nodi) > 2 \/ EsistonoPiuArchiStessoPedice(st.sc, st.pedici)

RECURSIVE RiduciCicloChiusura(_)
RiduciCicloChiusura(st) ==
    IF DaRidurre(st) THEN RiduciCicloChiusura(RiduciPassoChiusura(st)) ELSE st

RECURSIVE DecoraDa(_, _, _)
\* lines 2239-2247: the label of every edge with a subscript decorates the
\* node of the subscript
DecoraDa(decorazioni, st, archi) ==
    IF archi = <<>> THEN decorazioni
    ELSE LET pedice == PediceDi(st.pedici, Head(archi))
         IN DecoraDa(IF pedice # <<>>
                     THEN Decora(decorazioni, pedice[1], st.sc.arco[Head(archi)].rilevanza)
                     ELSE decorazioni,
                     st, Tail(archi))

RECURSIVE DiagnosiDa(_, _, _)
\* lines 2251-2260
DiagnosiDa(strDiagnosi, decorazioni, nodiFinali) ==
    IF nodiFinali = <<>> THEN strDiagnosi
    ELSE DiagnosiDa(AlternativaRilevanza(strDiagnosi,
                                         DecorazioneDi(decorazioni, Head(nodiFinali))),
                    decorazioni, Tail(nodiFinali))

\* Chiusura.espressioniRegolari on the closure ch of the space self: the
\* closure with its decorations and diagnosis, and self after the call
EspressioniRegolari(self, ch) ==
    LET copia == DeepCopyChiusura(
                     [nodo |-> self.nodo, arco |-> self.arco, nodi |-> ch.nodi,
                      archi |-> ch.archi, nodoIniziale |-> ch.nodoIniziale,
                      nodiUscita |-> ch.nodiUscita,
                      nodiAccettazione |-> ch.nodiAccettazione])
        nodiFinali == SelectSeq(ch.nodiAccettazione, LAMBDA n : self.nodo[n].isFinale)
    IN Sia(NormalizzaIniziale(TogliOsservabili(copia.sc)), LAMBDA i :
       Sia(NormalizzaFinaleChiusura(i.sc), LAMBDA f :
       Sia(RiduciCicloChiusura([sc |-> f.sc, pedici |-> <<>>, n0 |-> i.n0,
                                nq |-> f.nq]), LAMBDA fine :
       Sia(DecoraDa(ch.decorazioni, fine, fine.sc.archi), LAMBDA decorazioni :
         [ch |-> [ch EXCEPT !.decorazioni = decorazioni,
                            !.diagnosi = IF nodiFinali = <<>> THEN <<>>
                                         ELSE <<DiagnosiDa(<<>>, decorazioni, nodiFinali)>>],
          self |-> IF copia.alias
                   THEN [self EXCEPT !.nodo = fine.sc.nodo, !.arco = fine.sc.arco]
                   ELSE self]))))

\* SpazioComportamentale.generaChiusuraSilenziosaDecorata: self after the
\* call, the closure being attached to nodoIngresso
GeneraChiusuraSilenziosaDecorata(self, nodoIngresso) ==
    Sia(EspressioniRegolari(self, ChiusuraSilenziosa(self, nodoIngresso)),
        LAMBDA r : [r.self EXCEPT !.nodo[nodoIngresso].chiusura = <<r.ch>>])

(***************************************************************************)
(* The diagnoser.                                                          *)
(***************************************************************************)
\* no target of an observable edge becomes an entry node
IngressiSoloIniziale(self, nodiIngresso, archi) == nodiIngresso

RECURSIVE IngressiDa(_, _, _)
\* lines 1681-1692 over the edges given: the targets of the observable edges
IngressiDa(self, nodiIngresso, archi) ==
    IF archi = <<>> THEN nodiIngresso
    ELSE LET a == self.arco[Head(archi)]
         IN IngressiDa(self,
                       IF a.osservabilita # "" /\ ~NodoIn(self, a.nodo1, nodiIngresso)
                       THEN Append(nodiIngresso, a.nodo1) ELSE nodiIngresso,
                       Tail(archi))

\* lines 1676-1692: the entry nodes of the closures
NodiIngresso(self) ==
    IngressiDa(self, <<self.nodoIniziale>>,
               Concat([i \in DOMAIN self.nodi |-> self.nodo[self.nodi[i]].archiUscenti]))

RECURSIVE ChiusureDa(_, _)
\* lines 1697-1717: st is the space self and the diagnoser d
ChiusureDa(st, nodiIngresso) ==
    IF nodiIngresso = <<>> THEN st
    ELSE Sia(GeneraChiusuraSilenziosaDecorata(st.self, Head(nodiIngresso)),
           LAMBDA s1 :
             LET ni == Head(nodiIngresso)
                 xn == [NodoNuovo EXCEPT !.nome = "x" \o s1.nodo[ni].nome,
                                         !.isPotato = FALSE,
                                         !.isFinale = s1.nodo[ni].chiusura[1].diagnosi # <<>>,
                                         !.chiusura = s1.nodo[ni].chiusura]
             IN ChiusureDa([self |-> s1,
                            d |-> Sia(AddNodoNuovo(st.d, xn),
                                      LAMBDA d1 : IF ni = s1.nodoIniziale
                                                  THEN [d1 EXCEPT !.nodoIniziale = Len(d1.nodo)]
                                                  ELSE d1)],
                           Tail(nodiIngresso)))

\* lines 1722-1741: the edges of the diagnoser leaving node x, one for every
\* observable edge a1 leaving an exit node nu of the closure of x; its label
\* is the relevance of a1 followed by the decoration of nu
ArchiDiagnosticatoreDa(self, d, x) ==
    LET ch == d.nodo[x].chiusura[1]
    IN Concat([u \in DOMAIN ch.nodiUscita |->
          LET nu == ch.nodiUscita[u]
              uscenti == self.nodo[nu].archiUscenti
          IN Concat([k \in DOMAIN uscenti |->
                LET a1 == self.arco[uscenti[k]]
                    bersagli == SelectSeq(d.nodi,
                                   LAMBDA y : d.nodo[y].chiusura[1].nodoIniziale = a1.nodo1)
                IN IF a1.osservabilita = "" THEN <<>>
                   ELSE [b \in DOMAIN bersagli |->
                           [Arco(x, bersagli[b], a1.transizione,
                                 a1.rilevanza \o DecorazioneDi(ch.decorazioni, nu),
                                 a1.osservabilita) EXCEPT !.isPotato = FALSE]]])])

\* SpazioComportamentale.generaDiagnosticatore: the diagnoser and self after
\* the call
GeneraDiagnosticatore(self) ==
    Sia(ChiusureDa([self |-> self, d |-> SpazioNuovo], NodiIngresso(self)),
        LAMBDA c :
          [d |-> AggiungiArchi(c.d, Concat([i \in DOMAIN c.d.nodi |->
                                   ArchiDiagnosticatoreDa(c.self, c.d, c.d.nodi[i])])),
           self |-> c.self])

RECURSIVE SeguiArchiSovrascrive(_, _, _, _, _)
\* SeguiArchi with the value of a node already among the new pairs replaced
\* by the value of the last edge instead of the alternation
SeguiArchiSovrascrive(d, coppie_n, r1, uscenti, o) ==
    IF uscenti = <<>> THEN coppie_n
    ELSE LET arco == d.arco[Head(uscenti)]
             r2 == ConcatenaRilevanza(r1, arco.rilevanza)
             i == PrimoIndice(coppie_n, LAMBDA c : c.nodo = arco.nodo1)
         IN SeguiArchiSovrascrive(d,
               IF arco.osservabilita # o THEN coppie_n
               ELSE IF i = 0 THEN Append(coppie_n, [nodo |-> arco.nodo1, r |-> r2])
               ELSE [coppie_n EXCEPT ![i].r = r2],
               r1, Tail(uscenti), o)

RECURSIVE SeguiArchi(_, _, _, _, _)
\* lines 2293-2307 for the pair (x1, r1): the edges of x1 labelled o extend
\* the pairs coppie_n
SeguiArchi(d, coppie_n, r1, uscenti, o) ==
    IF uscenti = <<>> THEN coppie_n
    ELSE LET arco == d.arco[Head(uscenti)]
             r2 == ConcatenaRilevanza(r1, arco.rilevanza)
             i == PrimoIndice(coppie_n, LAMBDA c : c.nodo = arco.nodo1)
         IN SeguiArchi(d,
               IF arco.osservabilita # o THEN coppie_n
               ELSE IF i = 0 THEN Append(coppie_n, [nodo |-> arco.nodo1, r |-> r2])
               ELSE [coppie_n EXCEPT ![i].r = AlternativaRilevanza(@, r2)],
               r1, Tail(uscenti), o)

RECURSIVE SeguiCoppie(_, _, _, _)
SeguiCoppie(d, coppie_n, coppie, o) ==
    IF coppie = <<>> THEN coppie_n
    ELSE SeguiCoppie(d, SeguiArchi(d, coppie_n, Head(coppie).r,
                                   d.nodo[Head(coppie).nodo].archiUscenti, o),
                     Tail(coppie), o)

\* one iteration of the for loop of diagnosiLineare: the pairs after label o
DiagnosiPasso(d, coppie, o) == SeguiCoppie(d, <<>>, coppie, o)

RECURSIVE DiagnosiCiclo(_, _, _)
DiagnosiCiclo(d, coppie, oss) ==
    IF oss = <<>> THEN coppie
    ELSE DiagnosiCiclo(d, DiagnosiPasso(d, coppie, Head(oss)), Tail(oss))

RECURSIVE UnisciDiagnosi(_, _, _)
\* lines 2314-2331
UnisciDiagnosi(d, ret, coppie) ==
    IF coppie = <<>> THEN ret
    ELSE UnisciDiagnosi(d,
             AlternativaRilevanza(ret,
                 ConcatenaRilevanza(Head(coppie).r,
                                    d.nodo[Head(coppie).nodo].chiusura[1].diagnosi[1])),
             Tail(coppie))

\* Diagnosticatore.diagnosiLineare
DiagnosiLineare(d, oss) ==
    LET tutte == DiagnosiCiclo(d, <<[nodo |-> d.nodoIniziale, r |-> <<>>]>>, oss)
        coppie == SelectSeq(tutte, LAMBDA c : d.nodo[c.nodo].isFinale)
    IN IF Len(coppie) = 1
       THEN ConcatenaRilevanza(coppie[1].r,
                               d.nodo[coppie[1].nodo].chiusura[1].diagnosi[1])
       ELSE UnisciDiagnosi(d, <<>>, coppie)

(***************************************************************************)
(* The program: the tasks of the test driver, in its order.                *)
(***************************************************************************)
\* no compito has raised an exception
NessunErrore == [compito1 |-> "", compito2 |-> "", compito3 |-> "", compito4 |-> "",
                 compito5 |-> ""]

Init ==
    /\ rete \in Reti
    /\ ol \in Osservazioni
    /\ seme \in {0, 1}
    /\ pc = "compito1"
    /\ sc = SpazioNuovo
    /\ scol = SpazioNuovo
    /\ d3 = <<>>
    /\ diag = <<>>
    /\ d5 = <<>>
    /\ errore = NessunErrore
    /\ argomento = <<>>
    /\ risultato = <<>>

\* Main.compito1, first half: sc = SpazioComportamentale();
\* sc.creaSpazioComportamentale(rete)
Compito1Crea ==
    /\ pc = "compito1"
    /\ sc' = CreaSpazioComportamentale(sc, rete)
    /\ pc' = "compito1pota"
    /\ UNCHANGED <<argomento, risultato, rete, ol, seme, scol, d3, diag, d5, errore>>

\* Main.compito1, second half: sc.potaturaRidenominazione()
Compito1Pota ==
    /\ pc = "compito1pota"
    /\ \E r \in {PotaturaRidenominazione(sc)} :
          /\ sc' = r.sc
          /\ errore' = [errore EXCEPT !.compito1 = r.errore]
    /\ pc' = "compito2"
    /\ UNCHANGED <<argomento, risultato, rete, ol, seme, scol, d3, diag, d5>>

\* Main.compito2, first half: scol = SpazioComportamentale();
\* scol.creaSpazioComportamentaleOsservazioneLineare(rete, ol)
Compito2Crea ==
    /\ pc = "compito2"
    /\ \E r \in {CreaSpazioComportamentaleOsservazioneLineare(scol, rete, ol)} :
          /\ scol' = r.sc
          /\ errore' = [errore EXCEPT !.compito2 = r.errore]
          /\ pc' = IF r.errore = "" THEN "compito2pota" ELSE "compito4"
    /\ UNCHANGED <<argomento, risultato, rete, ol, seme, sc, d3, diag, d5>>

\* Main.compito2, second half: scol.potaturaRidenominazione()
Compito2Pota ==
    /\ pc = "compito2pota"
    /\ \E r \in {PotaturaRidenominazione(scol)} :
          /\ scol' = r.sc
          /\ errore' = [errore EXCEPT !.compito2 = r.errore]
          /\ pc' = IF r.errore = "" THEN "compito3" ELSE "compito4"
    /\ UNCHANGED <<argomento, risultato, rete, ol, seme, sc, d3, diag, d5>>

\* Main.compito3: d3 = scol.espressioneRegolare()
Compito3 ==
    /\ pc = "compito3"
    /\ \E r \in {EspressioneRegolare(scol)} :
          /\ d3' = r.ret
          /\ scol' = r.self
          /\ errore' = [errore EXCEPT !.compito3 = r.errore]
    /\ pc' = "compito4"
    /\ UNCHANGED <<argomento, risultato, rete, ol, seme, sc, diag, d5>>

\* Main.compito4: diag = sc.generaDiagnosticatore()
Compito4 ==
    /\ pc = "compito4"
    /\ errore.compito1 = ""
    /\ \E r \in {GeneraDiagnosticatore(sc)} :
          /\ diag' = <<r.d>>
          /\ sc' = r.self
    /\ pc' = "compito5"
    /\ UNCHANGED <<argomento, risultato, rete, ol, seme, scol, d3, d5, errore>>

\* Main.compito5: d5 = diag.diagnosiLineare(ol)
Compito5 ==
    /\ pc = "compito5"
    /\ d5' = DiagnosiLineare(diag[1], ol)
    /\ pc' = "fine"
    /\ UNCHANGED <<argomento, risultato, rete, ol, seme, sc, scol, d3, diag, errore>>

Next ==
    \/ Compito1Crea
    \/ Compito1Pota
    \/ Compito2Crea
    \/ Compito2Pota
    \/ Compito3
    \/ Compito4
    \/ Compito5

Spec == Init /\ [][Next]_vars

(***************************************************************************)
(* Graph notions the properties are stated with.                           *)
(***************************************************************************)
\* the joint configuration of a node: state vector and link-buffer vector
Configurazione(nodo) == [stati |-> nodo.stati, contenutoLink |-> nodo.contenutoLink]

ConfigurazioneIniziale(r) == Configurazione(CreaNodoIniziale(SpazioNuovo, r).nodo[1])

\* the configurations reached from cfg by one transition that can fire
Scatti(r, cfg) ==
    LET nodo == [NodoNuovo EXCEPT !.stati = cfg.stati, !.contenutoLink = cfg.contenutoLink]
        scatta == {t \in Range(TutteTransizioni(r)) :
                      /\ t.stato0 \in Range(cfg.stati)
                      /\ VerificaFattibilitaTransizione(nodo, t) # <<>>}
    IN {Configurazione(VerificaFattibilitaTransizione(nodo, t)[1]) : t \in scatta}

RECURSIVE Raggiungibili(_, _)
\* the least set of configurations that holds S and is closed under firing
Raggiungibili(r, S) ==
    LET S2 == S \cup UNION {Scatti(r, cfg) : cfg \in S}
    IN IF S2 = S THEN S ELSE Raggiungibili(r, S2)

RECURSIVE Avanti(_, _)
\* the nodes reached from the nodes S along the edges of the space
Avanti(s, S) ==
    LET S2 == S \cup {s.arco[a].nodo1 : a \in {b \in Range(s.archi) : s.arco[b].nodo0 \in S}}
    IN IF S2 = S THEN S ELSE Avanti(s, S2)

RECURSIVE Indietro(_, _)
\* the nodes from which a node of S is reached along the edges of the space
Indietro(s, S) ==
    LET S2 == S \cup {s.arco[a].nodo0 : a \in {b \in Range(s.archi) : s.arco[b].nodo1 \in S}}
    IN IF S2 = S THEN S ELSE Indietro(s, S2)

NodiAccettazione(s) == {n \in Range(s.nodi) : s.nodo[n].isFinale}

\* the observation read so far, extended by the label o; a sequence longer
\* than the observation is not extended further
Estendi(w, o, oss) ==
    IF o = "" \/ Len(w) > Len(oss) THEN w ELSE Append(w, o)

RECURSIVE Tracce(_, _, _)
\* the pairs of a node and the observable labels read along a path from
\* the initial node to it
Tracce(s, oss, S) ==
    LET S2 == S \cup UNION {
                 {[nodo |-> s.arco[a].nodo1, w |-> Estendi(p.w, s.arco[a].osservabilita, oss)] :
                     a \in {b \in Range(s.archi) : s.arco[b].nodo0 = p.nodo}} : p \in S}
    IN IF S2 = S THEN S ELSE Tracce(s, oss, S2)

\* the longest path of a space that is compared
MaxCammino == 4

\* an edge as a path holds it: its identity, its ends and its labels
Tratto(s, a) ==
    <<a, s.arco[a].nodo0, s.arco[a].nodo1, s.arco[a].rilevanza, s.arco[a].osservabilita>>

\* the node a path from the initial node ends in
Arrivo(s, p) == IF p = <<>> THEN s.nodoIniziale ELSE p[Len(p)][3]

RECURSIVE Cammini(_, _, _)
\* the paths P of the space extended by at most k edges
Cammini(s, P, k) ==
    IF k = 0 THEN P
    ELSE Cammini(s, P \cup UNION {
                     {Append(p, Tratto(s, a)) :
                         a \in {b \in Range(s.archi) : s.arco[b].nodo0 = Arrivo(s, p)}} :
                     p \in P}, k - 1)

\* the paths of at most MaxCammino edges from the initial node to node a
CamminiVerso(s, a) == {p \in Cammini(s, {<<>>}, MaxCammino) : Arrivo(s, p) = a}

\* the acceptance nodes of prima reachable from its initial node are nodes
\* of dopo, with the same paths from the initial node
Preserva(prima, dopo) ==
    \A a \in NodiAccettazione(prima) \cap Avanti(prima, {prima.nodoIniziale}) :
        /\ a \in Range(dopo.nodi)
        /\ dopo.nodo[a].isFinale
        /\ dopo.nodoIniziale = prima.nodoIniziale
        /\ CamminiVerso(dopo, a) = CamminiVerso(prima, a)

\* every node and edge of the space is on a path from the initial node to
\* an acceptance node, and every edge joins nodes of the space
PotatoBene(s) ==
    LET avanti == Avanti(s, {s.nodoIniziale})
        indietro == Indietro(s, NodiAccettazione(s))
    IN /\ \A n \in Range(s.nodi) : n \in avanti /\ n \in indietro
       /\ \A a \in Range(s.archi) :
             /\ s.arco[a].nodo0 \in Range(s.nodi) \cap avanti
             /\ s.arco[a].nodo1 \in Range(s.nodi) \cap indietro

(***************************************************************************)
(* Properties.                                                             *)
(***************************************************************************)
\* C1: the nodes of the space built by creaSpazioComportamentale are exactly
\* the configurations reachable from the initial configuration by
\* transitions whose firing conditions hold.
SpazioCompleto ==
    pc = "compito1pota" =>
        {Configurazione(sc.nodo[n]) : n \in Range(sc.nodi)}
            = Raggiungibili(rete, {ConfigurazioneIniziale(rete)})

\* a space whose exploration went beyond the successors of the initial node
TestimoneSpazioCompleto ==
    /\ pc = "compito1pota"
    /\ \E a, b \in Range(sc.archi) :
          /\ sc.arco[a].nodo0 = sc.nodoIniziale
          /\ sc.arco[b].nodo0 = sc.arco[a].nodo1
          /\ sc.arco[b].nodo1 \notin {sc.nodoIniziale, sc.arco[a].nodo1}

(***************************************************************************)
(* The language of a relevance string: alternatives separated by "|",      *)
(* juxtaposition, parentheses, the postfix star and the empty-word symbol. *)
(* Words are compared up to the length MaxParola.                          *)
(***************************************************************************)
\* the longest word of a language that is compared
MaxParola == 3

\* the number of parentheses open before position i of r
Profondita(r, i) ==
    Cardinality({j \in 1..(i - 1) : r[j] = "("}) - Cardinality({j \in 1..(i - 1) : r[j] = ")"})

RECURSIVE Chiusa(_, _, _)
\* the position of the parenthesis closing the one open at depth prof, from j
Chiusa(r, j, prof) ==
    IF r[j] = "(" THEN Chiusa(r, j + 1, prof + 1)
    ELSE IF r[j] # ")" THEN Chiusa(r, j + 1, prof)
    ELSE IF prof = 1 THEN j ELSE Chiusa(r, j + 1, prof - 1)

\* the words u v of length at most MaxParola, u in A and v in B
Prodotto(A, B) == {w \in {u \o v : u \in A, v \in B} : Len(w) <= MaxParola}

RECURSIVE StellaDa(_, _)
StellaDa(A, S) ==
    IF Prodotto(S, A) \subseteq S THEN S ELSE StellaDa(A, S \cup Prodotto(S, A))

\* the words of A* of length at most MaxParola
Stella(A) == StellaDa(A, {<<>>})

RECURSIVE Linguaggio(_)
\* the words of length at most MaxParola denoted by the relevance string r
Linguaggio(r) ==
    LET barre == {i \in DOMAIN r : r[i] = "|" /\ Profondita(r, i) = 0}
        b == CHOOSE i \in barre : \A j \in barre : i <= j
        fineAtomo == IF r[1] = "(" THEN Chiusa(r, 2, 1) ELSE 1
        atomo == IF r[1] = "(" THEN Linguaggio(SubSeq(r, 2, fineAtomo - 1))
                 ELSE IF r[1] = Eps THEN {<<>>} ELSE {<<r[1]>>}
        stella == fineAtomo < Len(r) /\ r[fineAtomo + 1] = "*"
        resto == Linguaggio(SubSeq(r, fineAtomo + (IF stella THEN 2 ELSE 1), Len(r)))
    IN IF barre # {}
       THEN Linguaggio(SubSeq(r, 1, b - 1)) \cup Linguaggio(SubSeq(r, b + 1, Len(r)))
       ELSE IF r = <<>> THEN {<<>>}
       ELSE Prodotto(IF stella THEN Stella(atomo) ELSE atomo, resto)

\* C2: when compito 3 and compito 5 both return, the string of
\* diagnosiLineare on the diagnoser of the pruned space denotes the same set
\* of relevance-label sequences as the string of espressioneRegolare on the
\* pruned space of the observation.
DiagnosticatoreEquivalente ==
    pc = "fine" /\ errore = NessunErrore => Linguaggio(d5) = Linguaggio(d3)

\* C3: in the space built for the observation ol, the observable labels
\* along every path from the initial node to an acceptance node are ol,
\* label by label.
OsservazioneRispettata ==
    pc = "compito2pota" =>
        \A p \in Tracce(scol, ol, {[nodo |-> scol.nodoIniziale, w |-> <<>>]}) :
            scol.nodo[p.nodo].isFinale => p.w = ol

\* a space for an observation of two labels with an acceptance node beyond
\* the initial one
TestimoneOsservazioneRispettata ==
    /\ pc = "compito2pota"
    /\ Len(ol) = 2
    /\ \E n \in NodiAccettazione(scol) :
          n # scol.nodoIniziale /\ n \in Avanti(scol, {scol.nodoIniziale})

\* C4: when potaturaRidenominazione returns, every node and edge left is on
\* a path from the initial node to an acceptance node and no edge left
\* touches a node that was removed.
SoloCamminiUtili ==
    /\ pc = "compito2" /\ errore.compito1 = "" => PotatoBene(sc)
    /\ pc = "compito3" => PotatoBene(scol)

\* a pruned space that lost nodes and kept edges
TestimoneSoloCamminiUtili ==
    /\ pc = "compito3"
    /\ Len(scol.nodi) < Len(scol.nodo)
    /\ Len(scol.archi) >= 2

\* C5: every acceptance node reachable from the initial node is still a node
\* of the space after potaturaRidenominazione, and the paths from the
\* initial node to it, as sequences of edges, are those before the call.
PotaturaPreserva ==
    [][/\ pc = "compito1pota" /\ pc' # pc => Preserva(sc, sc')
       /\ pc = "compito2pota" /\ pc' # pc => Preserva(scol, scol')]_vars

\* a pruned space that lost nodes and kept two paths to an acceptance node
TestimonePotaturaPreserva ==
    /\ pc = "compito3"
    /\ Len(scol.nodi) < Len(scol.nodo)
    /\ \E a \in NodiAccettazione(scol) : Cardinality(CamminiVerso(scol, a)) >= 2

\* some label of the observation ol labels no transition of the network
EtichettaAssente ==
    \E i \in DOMAIN ol :
        \A c \in DOMAIN rete.comportamenti :
            \A t \in DOMAIN rete.comportamenti[c].transizioni :
                rete.comportamenti[c].transizioni[t].osservabilita # ol[i]

\* C6: creaSpazioComportamentaleOsservazioneLineare raises ValueError, with
\* no node and no edge added to the space, when some label of the
\* observation labels no transition of the network, and raises nothing when
\* every label of the observation labels some transition.
VerificaPrimaDiCostruire ==
    [][pc = "compito2" /\ pc' # pc =>
          IF EtichettaAssente
          THEN /\ errore'.compito2 = "ValueError"
               /\ scol' = SpazioNuovo
               /\ scol'.nodi = <<>> /\ scol'.archi = <<>>
               /\ Len(scol'.nodo) = 1 /\ scol'.arco = <<>>
          ELSE errore'.compito2 = ""]_vars

\* an observation of two labels, one of the network and one absent from it,
\* was refused
TestimoneVerificaPrimaDiCostruire ==
    /\ pc = "compito4"
    /\ errore.compito2 = "ValueError"
    /\ EtichettaAssente
    /\ Len(ol) = 2
    /\ \E i \in DOMAIN ol : \E t \in Range(TutteTransizioni(rete)) : t.osservabilita = ol[i]
    /\ scol.nodi = <<>>

\* the initial node of the space reaches no acceptance node
SenzaAccettazione(s) == s.nodoIniziale \notin Indietro(s, NodiAccettazione(s))

\* C7: potaturaRidenominazione raises ValueError on a space without nodes
\* and on a space whose initial node reaches no acceptance node.
SpazioVuotoRifiutato ==
    [][/\ pc = "compito1pota" /\ pc' # pc /\ SenzaAccettazione(sc)
            => errore'.compito1 = "ValueError"
       /\ pc = "compito2pota" /\ pc' # pc /\ SenzaAccettazione(scol)
            => errore'.compito2 = "ValueError"
       /\ scol.nodi = <<>> => PotaturaRidenominazione(scol).errore = "ValueError"]_vars

\* a space of several nodes for an observation of the network, of which
\* nothing survived
TestimoneSpazioVuotoRifiutato ==
    /\ pc = "compito4"
    /\ errore.compito2 = "ValueError"
    /\ ~EtichettaAssente
    /\ Len(scol.nodo) >= 3
    /\ scol.nodi = <<>>

\* every transition of the network is observable
SoloOsservabili == \A t \in Range(TutteTransizioni(rete)) : t.osservabilita # ""

\* C8: for the empty observation (on a network whose transitions are all
\* observable, so that no silent move leaves the accepting initial
\* configuration) the space of the observation is a single node, and
\* espressioneRegolare and diagnosiLineare return the empty string without
\* raising an error.
ConfineOsservazioneVuota ==
    ol = <<>> /\ SoloOsservabili =>
        /\ pc = "compito2pota" => Len(scol.nodi) = 1 /\ scol.archi = <<>>
        /\ pc = "compito4" => errore.compito2 = "" /\ errore.compito3 = "" /\ d3 = <<>>
        /\ pc = "fine" => errore.compito5 = "" /\ d5 = <<>>

SenzaChiusure(s) ==
    [s EXCEPT !.nodo = [n \in DOMAIN @ |-> [@[n] EXCEPT !.chiusura = <<>>]]]

RECURSIVE ParoleSilenziose(_, _, _)
\* the pairs (node, relevance word of at most MaxParola labels) of the paths
\* of edges of the closure ch from the pairs of P
ParoleSilenziose(s, ch, P) ==
    LET P2 == P \cup UNION {
                 {[nodo |-> s.arco[a].nodo1, w |-> p.w \o s.arco[a].rilevanza] :
                     a \in {b \in Range(ch.archi) :
                               /\ s.arco[b].nodo0 = p.nodo
                               /\ Len(p.w \o s.arco[b].rilevanza) <= MaxParola}} : p \in P}
    IN IF P2 = P THEN P ELSE ParoleSilenziose(s, ch, P2)

\* the relevance words of the silent paths from the entry of ch to a node of A
ParoleVerso(s, ch, A) ==
    {p.w : p \in {q \in ParoleSilenziose(s, ch, {[nodo |-> ch.nodoIniziale, w |-> <<>>]}) :
                     q.nodo \in A}}

\* the closures of the nodes of the diagnoser
Chiusure == {diag[1].nodo[x].chiusura[1] : x \in Range(diag[1].nodi)}

\* the acceptance nodes of ch that are accepting in the space
AccettazioneFinali(ch) == {a \in Range(ch.nodiAccettazione) : sc.nodo[a].isFinale}

\* C11: for every silent closure and every acceptance node a of it, the
\* decoration of a denotes exactly the relevance-label sequences of the
\* silent paths from the entry of the closure to a, and the diagnosis of the
\* closure denotes the union of these sets over the acceptance nodes that
\* are accepting in the space.
DecorazioniEsatte ==
    pc = "compito5" =>
        \A ch \in Chiusure :
            /\ \A a \in Range(ch.nodiAccettazione) :
                  Linguaggio(DecorazioneDi(ch.decorazioni, a)) = ParoleVerso(sc, ch, {a})
            /\ ch.diagnosi # <<>> =>
                  Linguaggio(ch.diagnosi[1]) = ParoleVerso(sc, ch, AccettazioneFinali(ch))

\* the top-level alternatives of the relevance string r: the pieces between
\* the bars outside parentheses, the empty word written <<>>
AlternativeDi(r) ==
    LET tagli == {0, Len(r) + 1} \cup {i \in DOMAIN r : r[i] = "|" /\ Profondita(r, i) = 0}
        pezzi == {SubSeq(r, i + 1, j - 1) :
                     <<i, j>> \in {c \in tagli \X tagli :
                                      c[1] < c[2] /\ \A k \in tagli : ~(c[1] < k /\ k < c[2])}}
    IN {IF p = <<Eps>> THEN <<>> ELSE p : p \in pezzi}

\* C12: the diagnosis of a closure is the alternation of the decorations of
\* exactly the acceptance nodes that are accepting in the space, with no
\* other alternative, and it is null if and only if the closure has no such
\* acceptance node.
DiagnosiChiusura ==
    pc = "compito5" =>
        \A ch \in Chiusure :
            /\ ch.diagnosi = <<>> <=> AccettazioneFinali(ch) = {}
            /\ ch.diagnosi # <<>> =>
                  AlternativeDi(ch.diagnosi[1])
                      = UNION {AlternativeDi(DecorazioneDi(ch.decorazioni, a)) :
                                  a \in AccettazioneFinali(ch)}

\* the diagnosis of a closure is null if and only if no acceptance node of it
\* is accepting in the space
DiagnosiNullaSeNessuno ==
    pc = "compito5" =>
        \A ch \in Chiusure : ch.diagnosi = <<>> <=> AccettazioneFinali(ch) = {}

\* the pairs (diagnoser node, relevance) of diagnosiLineare after the labels
\* of oss, and those of them whose node is accepting
Frontiera(d, oss) == DiagnosiCiclo(d, <<[nodo |-> d.nodoIniziale, r |-> <<>>]>>, oss)
FrontieraFinale(d, oss) == SelectSeq(Frontiera(d, oss), LAMBDA c : d.nodo[c.nodo].isFinale)

\* concat(r, x.closure.diagnosis) of the pair c
DiagnosiCoppia(d, c) == ConcatenaRilevanza(c.r, d.nodo[c.nodo].chiusura[1].diagnosi[1])

\* C13: of the pairs left after ol only those of an accepting diagnoser node
\* are kept; with none the result of diagnosiLineare is ""; with exactly one
\* pair (x, r) it is concat(r, x.closure.diagnosis); with several it is the
\* alternation of concat(r, x.closure.diagnosis) over exactly those pairs,
\* with no further alternative.
DiagnosiDalleCoppie ==
    pc = "fine" /\ errore.compito5 = "" =>
        LET coppie == FrontieraFinale(diag[1], ol)
        IN /\ coppie = <<>> => d5 = <<>>
           /\ Len(coppie) = 1 => d5 = DiagnosiCoppia(diag[1], coppie[1])
           /\ Len(coppie) > 1 =>
                 AlternativeDi(d5) = UNION {AlternativeDi(DiagnosiCoppia(diag[1], coppie[i])) :
                                               i \in DOMAIN coppie}

RECURSIVE RaggiuntiCon(_, _)
\* the nodes of the diagnoser d reached from its initial node by a path of
\* edges whose observability labels spell oss
RaggiuntiCon(d, oss) ==
    IF oss = <<>> THEN {d.nodoIniziale}
    ELSE LET prima == RaggiuntiCon(d, SubSeq(oss, 1, Len(oss) - 1))
         IN {d.arco[a].nodo1 :
                a \in {b \in Range(d.archi) : /\ d.arco[b].nodo0 \in prima
                                               /\ d.arco[b].osservabilita = oss[Len(oss)]}}

\* the steps (index of a pair of F, edge labelled o leaving its node)
PassiDa(d, F, o) ==
    {p \in (DOMAIN F) \X Range(d.archi) :
        /\ d.arco[p[2]].nodo0 = F[p[1]].nodo
        /\ d.arco[p[2]].osservabilita = o}

\* F2 is the frontier after the label o from the frontier F
PassoFrontiera(d, F, o, F2) ==
    LET passi == PassiDa(d, F, o)
    IN /\ {F2[j].nodo : j \in DOMAIN F2} = {d.arco[p[2]].nodo1 : p \in passi}
       /\ \A i, j \in DOMAIN F2 : F2[i].nodo = F2[j].nodo => i = j
       /\ \A j \in DOMAIN F2 :
             LET verso == {p \in passi : d.arco[p[2]].nodo1 = F2[j].nodo}
                 valori == {ConcatenaRilevanza(F[p[1]].r, d.arco[p[2]].rilevanza) : p \in verso}
             IN /\ Cardinality(verso) = 1 => F2[j].r \in valori
                /\ AlternativeDi(F2[j].r) = UNION {AlternativeDi(v) : v \in valori}

\* C14: diagnosiLineare starts from the frontier {initial -> ""}; for each
\* label o of ol in order the new frontier holds exactly the targets of the
\* edges labelled o that leave a node of the frontier, the value of a target
\* being concat(r, edge.relevance), or the alternation of these values when
\* several edges reach it; so after k labels the nodes of the frontier are
\* the diagnoser nodes reached from the initial node by a path spelling the
\* first k labels of ol.
FrontieraEsatta ==
    pc = "fine" /\ diag # <<>> =>
        /\ Frontiera(diag[1], <<>>) = <<[nodo |-> diag[1].nodoIniziale, r |-> <<>>]>>
        /\ \A k \in 0..(Len(ol) - 1) :
              PassoFrontiera(diag[1], Frontiera(diag[1], SubSeq(ol, 1, k)), ol[k + 1],
                             Frontiera(diag[1], SubSeq(ol, 1, k + 1)))
        /\ \A k \in 0..Len(ol) :
              {c.nodo : c \in Range(Frontiera(diag[1], SubSeq(ol, 1, k)))}
                  = RaggiuntiCon(diag[1], SubSeq(ol, 1, k))

\* two labels consumed, the first over two edges that reach the same node
\* (the alternation of their values), the second from that frontier
TestimoneFrontieraEsatta ==
    /\ pc = "fine" /\ diag # <<>> /\ Len(ol) = 2
    /\ Frontiera(diag[1], ol) # <<>>
    /\ \E c \in Range(Frontiera(diag[1], <<ol[1]>>)) :
          /\ Cardinality({p \in PassiDa(diag[1], Frontiera(diag[1], <<>>), ol[1]) :
                             diag[1].arco[p[2]].nodo1 = c.nodo}) >= 2
          /\ Cardinality(AlternativeDi(c.r)) >= 2

\* the triples (diagnoser node x, exit node u of the closure of x, observable
\* edge of the space leaving u)
UsciteOsservabili(s, d) ==
    {t \in Range(d.nodi) \X Range(s.nodi) \X Range(s.archi) :
        /\ t[2] \in Range(d.nodo[t[1]].chiusura[1].nodiUscita)
        /\ s.arco[t[3]].nodo0 = t[2]
        /\ s.arco[t[3]].osservabilita # ""}

\* the edge of the diagnoser that the triple t asks for: from x to the node
\* whose closure is entered at the target of the edge, with the
\* observability of the edge and the concatenation of its relevance and the
\* decoration of u
ArcoAtteso(s, d, t) ==
    [nodo0 |-> t[1],
     nodo1 |-> {y \in Range(d.nodi) : d.nodo[y].chiusura[1].nodoIniziale = s.arco[t[3]].nodo1},
     osservabilita |-> s.arco[t[3]].osservabilita,
     rilevanza |-> ConcatenaRilevanza(s.arco[t[3]].rilevanza,
                       DecorazioneDi(d.nodo[t[1]].chiusura[1].decorazioni, t[2]))]

\* the edge a of the diagnoser, in the same form
ArcoTrovato(d, a) ==
    [nodo0 |-> d.arco[a].nodo0, nodo1 |-> {d.arco[a].nodo1},
     osservabilita |-> d.arco[a].osservabilita, rilevanza |-> d.arco[a].rilevanza]

\* C15: for each diagnoser node x, each exit node u of the closure of x and
\* each observable edge u -> v of the space with labels (obs, rel), the
\* diagnoser holds exactly one edge from x to the node whose closure is
\* entered at v, with observability obs and relevance the regex
\* concatenation (distributing over top-level alternatives) of rel and the
\* decoration of u, "" if absent; the diagnoser holds no other edge.
ArchiDiagnosticatoreEsatti ==
    pc = "compito5" =>
        LET d == diag[1]
            attesi == {ArcoAtteso(sc, d, t) : t \in UsciteOsservabili(sc, d)}
            trovati == {ArcoTrovato(d, a) : a \in Range(d.archi)}
        IN /\ attesi = trovati
           /\ \A g \in attesi :
                 Cardinality({t \in UsciteOsservabili(sc, d) : ArcoAtteso(sc, d, t) = g})
                     = Cardinality({i \in DOMAIN d.archi : ArcoTrovato(d, d.archi[i]) = g})

\* the entry nodes of the space s: its initial node and the targets of its
\* observable edges
Ingressi(s) ==
    {s.nodoIniziale} \cup {s.arco[a].nodo1 : a \in {b \in Range(s.archi) : s.arco[b].osservabilita # ""}}

\* the entry of the closure of the node x of the diagnoser d
IngressoDi(d, x) == d.nodo[x].chiusura[1].nodoIniziale

\* C16: the diagnoser has exactly one node per entry node of the space, the
\* entry nodes being the initial node and every target of an observable
\* edge; a node of the diagnoser is accepting if and only if the diagnosis
\* of its closure is not null; the initial node of the diagnoser is the one
\* whose closure is entered at the initial node of the space.
NodiDiagnosticatore ==
    pc = "compito5" =>
        LET d == diag[1]
        IN /\ {IngressoDi(d, x) : x \in Range(d.nodi)} = Ingressi(sc)
           /\ \A i, j \in DOMAIN d.nodi :
                 IngressoDi(d, d.nodi[i]) = IngressoDi(d, d.nodi[j]) => i = j
           /\ \A x \in Range(d.nodi) :
                 d.nodo[x].isFinale <=> d.nodo[x].chiusura[1].diagnosi # <<>>
           /\ d.nodoIniziale \in Range(d.nodi)
           /\ IngressoDi(d, d.nodoIniziale) = sc.nodoIniziale

\* a diagnoser of at least three nodes, one accepting and one not, over a
\* space with a node that is not an entry
TestimoneNodiDiagnosticatore ==
    /\ pc = "compito5"
    /\ Len(diag[1].nodi) >= 3
    /\ \E x, y \in Range(diag[1].nodi) : diag[1].nodo[x].isFinale /\ ~diag[1].nodo[y].isFinale
    /\ Range(sc.nodi) \ Ingressi(sc) # {}

(***************************************************************************)
(* The regex algebra on its own: concatenaRilevanza and                    *)
(* alternativaRilevanza are static methods, applied here to every short    *)
(* regular expression.  argomento is the expression passed, risultato the  *)
(* string returned (<<>> before the call, else <<string>>).                *)
(***************************************************************************)
\* the longest expression passed
MaxEspressione == 3

\* the characters of the expressions passed
Simboli == {"a", "b", "|", "(", ")", "*", Eps}

\* r is a regular expression: the parentheses match and every star follows
\* a literal, the empty-word symbol or a group
BenFormata(r) ==
    /\ \A i \in 1..(Len(r) + 1) : Profondita(r, i) >= 0
    /\ Profondita(r, Len(r) + 1) = 0
    /\ \A i \in DOMAIN r : r[i] = "*" => i > 1 /\ r[i - 1] \notin {"(", "|", "*"}

Espressioni ==
    {r \in UNION {[1..n -> Simboli] : n \in 0..MaxEspressione} : BenFormata(r)}

InitAlgebra ==
    /\ argomento \in Espressioni
    /\ risultato = <<>>
    /\ seme \in {0, 1}
    /\ pc = "algebra"
    /\ rete = ReteDa({})
    /\ ol = <<>>
    /\ sc = SpazioNuovo
    /\ scol = SpazioNuovo
    /\ d3 = <<>>
    /\ diag = <<>>
    /\ d5 = <<>>
    /\ errore = NessunErrore

\* concatenaRilevanza(a, eps), the empty word written "" or with its symbol
ConcatenaADestra ==
    /\ pc = "algebra"
    /\ \E eps \in {<<>>, <<Eps>>} : risultato' = <<ConcatenaRilevanza(argomento, eps)>>
    /\ pc' = "concatenaADestra"
    /\ UNCHANGED <<argomento, rete, ol, seme, sc, scol, d3, diag, d5, errore>>

\* concatenaRilevanza(eps, a)
ConcatenaASinistra ==
    /\ pc = "algebra"
    /\ \E eps \in {<<>>, <<Eps>>} : risultato' = <<ConcatenaRilevanza(eps, argomento)>>
    /\ pc' = "concatenaASinistra"
    /\ UNCHANGED <<argomento, rete, ol, seme, sc, scol, d3, diag, d5, errore>>

\* alternativaRilevanza(a, a)
AlternativaConSe ==
    /\ pc = "algebra"
    /\ risultato' = <<AlternativaRilevanza(argomento, argomento)>>
    /\ pc' = "alternativaConSe"
    /\ UNCHANGED <<argomento, rete, ol, seme, sc, scol, d3, diag, d5, errore>>

NextAlgebra == ConcatenaADestra \/ ConcatenaASinistra \/ AlternativaConSe

SpecAlgebra == InitAlgebra /\ [][NextAlgebra]_vars

\* C17: for every regular expression a, concatenaRilevanza(a, eps) and
\* concatenaRilevanza(eps, a) have the same set of top-level alternatives as
\* a, and so has alternativaRilevanza(a, a), the empty word being written
\* either "" or with its symbol.
IdentitaAlgebra ==
    pc \in {"concatenaADestra", "concatenaASinistra", "alternativaConSe"} =>
        AlternativeDi(risultato[1]) = AlternativeDi(argomento)

\* the same on the expressions that do not end with an empty alternative
IdentitaSenzaCodaVuota ==
    /\ pc \in {"concatenaADestra", "concatenaASinistra", "alternativaConSe"}
    /\ ~(argomento # <<>> /\ argomento[Len(argomento)] = "|")
    => AlternativeDi(risultato[1]) = AlternativeDi(argomento)

(***************************************************************************)
(* The nodes of a space during its construction.                           *)
(***************************************************************************)
\* the nodes m and n have the same state vector, the same contents of the
\* link buffers, the same acceptance flag and the same observation index
StessoContenuto(m, n) ==
    /\ m.stati = n.stati
    /\ m.contenutoLink = n.contenutoLink
    /\ m.isFinale = n.isFinale
    /\ m.indiceOsservazione = n.indiceOsservazione

\* no two nodes of the list of nodes of s have the same contents
SenzaDoppioni(s) ==
    \A i, j \in DOMAIN s.nodi :
        StessoContenuto(s.nodo[s.nodi[i]], s.nodo[s.nodi[j]]) => i = j

RECURSIVE PuntiCrea(_, _)
\* the states of the exploration at the head of the while loop of
\* creaSpazioComportamentale, from st on
PuntiCrea(r, st) ==
    IF st.nodoCorr = 0 THEN {} ELSE {st} \cup PuntiCrea(r, CreaPasso(r, st))

RECURSIVE PuntiCreaOL(_, _, _)
\* the same for creaSpazioComportamentaleOsservazioneLineare
PuntiCreaOL(r, oss, st) ==
    IF st.nodoCorr = 0 THEN {} ELSE {st} \cup PuntiCreaOL(r, oss, CreaPassoOL(r, oss, st))

\* the successor fired from corr by trans in the space of the observation
\* oss: <<>> when trans does not fire
SuccessoreOL(oss, corr, trans) ==
    LET fatt == VerificaFattibilitaTransizione(corr, trans)
        indice == corr.indiceOsservazione + (IF trans.osservabilita = "" THEN 0 ELSE 1)
    IN IF trans.osservabilita # "" /\ indice > Len(oss) THEN <<>>
       ELSE IF trans.osservabilita # "" /\ oss[indice] # trans.osservabilita THEN <<>>
       ELSE IF fatt = <<>> THEN <<>>
       ELSE <<[fatt[1] EXCEPT !.indiceOsservazione = indice,
                              !.isFinale = @ /\ indice = Len(oss)]>>

\* from the exploration prima, trying a transition whose successor is succ
\* gave the exploration dopo: a successor equal to a node of the space is
\* neither added nor pushed and the new edge goes to that node; any other
\* successor is added, pushed and reached by the new edge
PassoSenzaDoppioni(prima, dopo, succ) ==
    IF succ = <<>> THEN dopo = prima
    ELSE LET t == dopo.sc.arco[dopo.sc.archi[Len(dopo.sc.archi)]].nodo1
             uguali == {n \in Range(prima.sc.nodi) : StessoContenuto(prima.sc.nodo[n], succ[1])}
         IN /\ Len(dopo.sc.archi) = Len(prima.sc.archi) + 1
            /\ StessoContenuto(dopo.sc.nodo[t], succ[1])
            /\ IF uguali # {}
               THEN t \in uguali /\ dopo.sc.nodi = prima.sc.nodi /\ dopo.pila = prima.pila
               ELSE /\ dopo.sc.nodi = Append(prima.sc.nodi, t)
                    /\ dopo.pila = Append(prima.pila, t)
            /\ SenzaDoppioni(dopo.sc)

\* the explorations of creaSpazioComportamentale(rete) after each transition
\* tried
CostruzioneSenzaDoppioni ==
    \A st \in PuntiCrea(rete, [sc |-> [CreaNodoIniziale(SpazioNuovo, rete)
                                         EXCEPT !.nodi = <<1>>],
                               pila |-> <<>>, nodoCorr |-> 1]) :
        LET daProvare == TransizioniDaProvare(rete, st.sc.nodo[st.nodoCorr])
            dopo(k) == EsploraNodo([sc |-> st.sc, pila |-> st.pila], st.nodoCorr,
                                   SubSeq(daProvare, 1, k))
        IN \A k \in DOMAIN daProvare :
              PassoSenzaDoppioni(dopo(k - 1), dopo(k),
                  VerificaFattibilitaTransizione(st.sc.nodo[st.nodoCorr], daProvare[k]))

\* the same for creaSpazioComportamentaleOsservazioneLineare(rete, ol)
CostruzioneOLSenzaDoppioni ==
    \A st \in PuntiCreaOL(rete, ol, [sc |-> InizioOL(SpazioNuovo, rete, ol), pila |-> <<>>,
                                     nodoCorr |-> 1]) :
        LET daProvare == TransizioniDaProvare(rete, st.sc.nodo[st.nodoCorr])
            dopo(k) == EsploraNodoOL(ol, [sc |-> st.sc, pila |-> st.pila], st.nodoCorr,
                                     SubSeq(daProvare, 1, k))
        IN \A k \in DOMAIN daProvare :
              PassoSenzaDoppioni(dopo(k - 1), dopo(k),
                  SuccessoreOL(ol, st.sc.nodo[st.nodoCorr], daProvare[k]))

\* C18: at every point of the construction no two distinct nodes of the
\* space have the same state vector, the same contents of the link buffers,
\* the same acceptance flag and the same observation index; a fired
\* successor equal to an existing node is neither added nor pushed again,
\* and the new edge goes to the existing node.
NodiSenzaDoppioni ==
    /\ SenzaDoppioni(sc)
    /\ SenzaDoppioni(scol)
    /\ pc = "compito1pota" => CostruzioneSenzaDoppioni
    /\ pc = "compito2pota" => CostruzioneOLSenzaDoppioni

\* a space of the observation in which an edge closes on a node found by
\* ricercaNodo, and two nodes differ by the observation index only
TestimoneNodiSenzaDoppioni ==
    /\ pc = "compito2pota"
    /\ Len(scol.archi) > Len(scol.nodi)
    /\ \E m, n \in Range(scol.nodi) :
          /\ m # n
          /\ scol.nodo[m].stati = scol.nodo[n].stati
          /\ scol.nodo[m].contenutoLink = scol.nodo[n].contenutoLink
          /\ scol.nodo[m].indiceOsservazione # scol.nodo[n].indiceOsservazione

(***************************************************************************)
(* Nodo.verificaFattibilitaTransizione on its own: the method is called on *)
(* a node and a transition that leaves one of the states of the node.      *)
(* argomento is the pair passed, risultato the value returned together     *)
(* with the node after the call.                                           *)
(***************************************************************************)
\* the largest number of output events of a transition passed
MaxEventiOutput == 2

\* the links of the nodes passed and the events they carry
LinkScatto == <<"L", "M">>
EventiScatto == {"x", "y"}

\* the nodes passed: B1 in a0 or a1, B2 in b0, any contents of the two links
NodiScatto ==
    {[NodoNuovo EXCEPT !.nome = "0", !.stati = <<a, "b0">>,
                       !.contenutoLink = <<Buffer(LinkScatto[1], e1), Buffer(LinkScatto[2], e2)>>,
                       !.isFinale = (e1 = "" /\ e2 = "")] :
        a \in {"a0", "a1"}, e1 \in EventiScatto \cup {""}, e2 \in EventiScatto \cup {""}}

\* the transitions passed: any required event, up to MaxEventiOutput output
\* events in any order, also several on one link
TransizioniScatto ==
    LET eventi == {Buffer(l, e) : l \in Range(LinkScatto), e \in EventiScatto}
    IN {Transizione("t", s[1], s[2], en, eo, "", <<>>) :
           s \in {<<"a0", "a1">>, <<"a1", "a0">>, <<"a0", "a0">>, <<"b0", "b0">>},
           en \in {<<>>} \cup {<<b>> : b \in eventi},
           eo \in UNION {[1..n -> eventi] : n \in 0..MaxEventiOutput}}

\* Buffer.clone: the copy, and whether it is the very object it was taken
\* from
CloneBufferStesso(self) == [buffer |-> self, alias |-> TRUE]

CloneBuffer(self) == [buffer |-> self, alias |-> FALSE]

RECURSIVE BufferScritti(_, _)
\* the buffers of nodoOutput when step 2 of verificaFattibilitaTransizione
\* ends: the output events stored up to the first full buffer
BufferScritti(contenutoLink, eventiOutput) ==
    IF eventiOutput = <<>> THEN contenutoLink
    ELSE LET eo == Head(eventiOutput)
             i == CercaContenutoLink(contenutoLink, eo.link)
         IN IF contenutoLink[i].evento # "" THEN contenutoLink
            ELSE BufferScritti([contenutoLink EXCEPT ![i].evento = eo.evento],
                               Tail(eventiOutput))

\* the node self after verificaFattibilitaTransizione(self, transizione):
\* what the method writes into the buffers of nodoOutput reaches the buffers
\* of self that nodoOutput shares with it
SorgenteDopo(self, transizione) ==
    LET en == transizione.eventoNecessario
        iNec == IF en = <<>> THEN 0 ELSE CercaContenutoLink(self.contenutoLink, en[1].link)
        scritti == IF en = <<>>
                   THEN BufferScritti(self.contenutoLink, transizione.eventiOutput)
                   ELSE IF self.contenutoLink[iNec].evento # en[1].evento
                   THEN self.contenutoLink
                   ELSE BufferScritti([self.contenutoLink EXCEPT ![iNec].evento = ""],
                                      transizione.eventiOutput)
    IN [self EXCEPT !.contenutoLink =
           [i \in DOMAIN @ |-> IF CloneBuffer(@[i]).alias THEN scritti[i] ELSE @[i]]]

InitScatto ==
    /\ argomento \in {a \in [nodo : NodiScatto, transizione : TransizioniScatto] :
                         a.transizione.stato0 \in Range(a.nodo.stati)}
    /\ risultato = <<>>
    /\ pc = "verifica"
    /\ seme = 0
    /\ rete = ReteDa({})
    /\ ol = <<>>
    /\ sc = SpazioNuovo
    /\ scol = SpazioNuovo
    /\ d3 = <<>>
    /\ diag = <<>>
    /\ d5 = <<>>
    /\ errore = NessunErrore

\* nodo.verificaFattibilitaTransizione(transizione)
Verifica ==
    /\ pc = "verifica"
    /\ risultato' = <<[successore |-> VerificaFattibilitaTransizione(argomento.nodo,
                                                                     argomento.transizione),
                       sorgente |-> SorgenteDopo(argomento.nodo, argomento.transizione)]>>
    /\ pc' = "verificata"
    /\ UNCHANGED <<argomento, rete, ol, seme, sc, scol, d3, diag, d5, errore>>

NextScatto == Verifica

SpecScatto == InitScatto /\ [][NextScatto]_vars

\* the event in the buffer of the link l of the node n
Evento(n, l) == n.contenutoLink[CHOOSE i \in DOMAIN n.contenutoLink : n.contenutoLink[i].link = l].evento

\* the event in the buffer of the link l of n once the required event of t
\* has been consumed
EventoDopoConsumo(n, t, l) ==
    IF t.eventoNecessario # <<>> /\ t.eventoNecessario[1].link = l THEN "" ELSE Evento(n, l)

\* condition (i): t has no required event, or the buffer of its link holds it
EventoNecessarioPresente(n, t) ==
    t.eventoNecessario # <<>> =>
        Evento(n, t.eventoNecessario[1].link) = t.eventoNecessario[1].evento

\* condition (ii): the buffer of the link of every output event of t is
\* empty after the required event has been consumed
BufferOutputLiberi(n, t) ==
    \A k \in DOMAIN t.eventiOutput : EventoDopoConsumo(n, t, t.eventiOutput[k].link) = ""

\* the output events of t are on different links
LinkOutputDistinti(t) ==
    \A j, k \in DOMAIN t.eventiOutput :
        t.eventiOutput[j].link = t.eventiOutput[k].link => j = k

\* the buffers of the successor s of n by t: the link of the required event
\* is empty unless an output refills it, the link of each output event
\* holds it
BufferSuccessore(n, t, s) ==
    /\ \A k \in DOMAIN t.eventiOutput :
          Evento(s, t.eventiOutput[k].link) = t.eventiOutput[k].evento
    /\ t.eventoNecessario # <<>>
       /\ (\A k \in DOMAIN t.eventiOutput :
              t.eventiOutput[k].link # t.eventoNecessario[1].link)
       => Evento(s, t.eventoNecessario[1].link) = ""

\* C19 as stated: t fires from n if and only if (i) t has no required event
\* or the buffer of its link in n holds exactly that event and (ii) for
\* every output event of t the buffer of its link is empty after the
\* required event has been consumed; in the successor the buffer of the
\* required event is empty unless refilled by an output, and the buffer of
\* each output link holds the output event.
ScattoSeESoloSe ==
    pc = "verificata" =>
        LET n == argomento.nodo
            t == argomento.transizione
        IN /\ risultato[1].successore # <<>>
                 <=> EventoNecessarioPresente(n, t) /\ BufferOutputLiberi(n, t)
           /\ risultato[1].successore # <<>> => BufferSuccessore(n, t, risultato[1].successore[1])

\* C19, amended: condition (ii) asks in addition that the output events of
\* t are on different links, a buffer filled by an output event being full
\* for the next one.
ScattoSeESoloSeInOrdine ==
    pc = "verificata" =>
        LET n == argomento.nodo
            t == argomento.transizione
        IN /\ risultato[1].successore # <<>>
                 <=> /\ EventoNecessarioPresente(n, t)
                     /\ BufferOutputLiberi(n, t)
                     /\ LinkOutputDistinti(t)
           /\ risultato[1].successore # <<>> => BufferSuccessore(n, t, risultato[1].successore[1])

\* a transition fired that consumed its required event and refilled the
\* buffer with an output event, and filled the other link as well
TestimoneScattoSeESoloSeInOrdine ==
    /\ pc = "verificata"
    /\ risultato[1].successore # <<>>
    /\ argomento.transizione.eventoNecessario # <<>>
    /\ Len(argomento.transizione.eventiOutput) = 2
    /\ \E k \in DOMAIN argomento.transizione.eventiOutput :
          argomento.transizione.eventiOutput[k].link
              = argomento.transizione.eventoNecessario[1].link

\* the position in the state vector of the behaviour the transition t
\* belongs to: B1 owns a0 and a1, B2 owns b0
PosizioneDi(t) == IF t.stato0 \in {"a0", "a1"} THEN 1 ELSE 2

\* the links named by the required event and the output events of t
LinkDi(t) ==
    {t.eventoNecessario[k].link : k \in DOMAIN t.eventoNecessario}
        \cup {t.eventiOutput[k].link : k \in DOMAIN t.eventiOutput}

FiltroRispettato ==
    pc \in {"compito2pota", "compito3"} =>
        /\ \A a \in Range(scol.archi) :
              LET e == scol.arco[a]
                  n == scol.nodo[e.nodo0]
                  m == scol.nodo[e.nodo1]
              IN /\ \/ e.osservabilita = ""
                    \/ /\ n.indiceOsservazione < Len(ol)
                       /\ e.osservabilita = ol[n.indiceOsservazione + 1]
                 /\ m.indiceOsservazione
                       = n.indiceOsservazione + (IF e.osservabilita = "" THEN 0 ELSE 1)
        /\ \A n \in Range(scol.nodi) :
              0 <= scol.nodo[n].indiceOsservazione /\ scol.nodo[n].indiceOsservazione <= Len(ol)

\* a space for two labels with a silent edge, an observable edge and a node
\* that has seen the whole observation, in a network where a transition
\* with a label of the observation was kept out by the filter
TestimoneFiltroRispettato ==
    /\ pc = "compito2pota"
    /\ Len(ol) = 2
    /\ \E a, b \in Range(scol.archi) :
          scol.arco[a].osservabilita = "" /\ scol.arco[b].osservabilita # ""
    /\ \E n \in Range(scol.nodi) : scol.nodo[n].indiceOsservazione = 2
    /\ \E n \in Range(scol.nodi) :
          \E t \in Range(TransizioniDaProvare(rete, scol.nodo[n])) :
              /\ t.osservabilita # ""
              /\ VerificaFattibilitaTransizione(scol.nodo[n], t) # <<>>
              /\ \A a \in Range(scol.nodo[n].archiUscenti) : scol.arco[a].transizione # <<t.nome>>

\* every link buffer of the node n is empty
BufferVuoti(n) == \A i \in DOMAIN n.contenutoLink : n.contenutoLink[i].evento = ""

\* C22: in every node of the space of the network, the initial node
\* included, isFinale is true if and only if every link buffer of the node
\* is empty; in every node of the space of the observation ol, the initial
\* node included, isFinale is true if and only if every link buffer is
\* empty and the observation index is the length of ol.
AccettazioneCoerente ==
    /\ \A n \in Range(sc.nodi) : sc.nodo[n].isFinale <=> BufferVuoti(sc.nodo[n])
    /\ \A n \in Range(scol.nodi) :
          scol.nodo[n].isFinale
              <=> BufferVuoti(scol.nodo[n]) /\ scol.nodo[n].indiceOsservazione = Len(ol)

\* a space of an observation with an accepting node, a node with empty
\* buffers before the end of the observation and a node at the end of the
\* observation with a full buffer
TestimoneAccettazioneCoerente ==
    /\ pc = "compito2pota"
    /\ Len(ol) >= 1
    /\ \E n \in Range(scol.nodi) : scol.nodo[n].isFinale
    /\ \E n \in Range(scol.nodi) :
          BufferVuoti(scol.nodo[n]) /\ scol.nodo[n].indiceOsservazione < Len(ol)
    /\ \E n \in Range(scol.nodi) :
          ~BufferVuoti(scol.nodo[n]) /\ scol.nodo[n].indiceOsservazione = Len(ol)
    /\ \E n \in Range(sc.nodi) : ~sc.nodo[n].isFinale

(***************************************************************************)
(* The minimal loop: B1 emits x on L with t1 (label o1, relevance f) and   *)
(* B2 consumes it with the silent t2; the observation is o1.               *)
(***************************************************************************)
\* the network of t1 and t2 alone, observed as o1
CicloMinimo ==
    /\ rete = ReteDa({i \in 1..Len(Catalogo) : Catalogo[i].t.nome \in {"t1", "t2"}})
    /\ ol = <<"o1">>

\* node n of the space s is in the states (a0, b0) with the event evento on
\* L, the acceptance flag finale and the observation index indice
NodoCiclo(s, n, evento, finale, indice) ==
    /\ s.nodo[n].stati = <<"a0", "b0">>
    /\ s.nodo[n].contenutoLink = <<Buffer("L", evento)>>
    /\ s.nodo[n].isFinale = finale
    /\ s.nodo[n].indiceOsservazione = indice

\* the space s has an edge of the transition nome from node n to node m
ArcoCiclo(s, nome, n, m) ==
    \E a \in Range(s.archi) :
        /\ s.arco[a].transizione = <<nome>>
        /\ s.arco[a].nodo0 = n
        /\ s.arco[a].nodo1 = m

\* the two nodes of the statement: N0 accepting at index 0, N1 with x on L
\* at index 1, t1 from N0 to N1 and t2 from N1 back to N0
DueNodi(s) ==
    /\ Len(s.nodi) = 2
    /\ \E n0, n1 \in Range(s.nodi) :
          /\ NodoCiclo(s, n0, "", TRUE, 0)
          /\ NodoCiclo(s, n1, "x", FALSE, 1)
          /\ ArcoCiclo(s, "t1", n0, n1)
          /\ ArcoCiclo(s, "t2", n1, n0)

\* the three nodes the construction makes: N0 with L empty at index 0, not
\* accepting; N1 with x on L at index 1; N2 with L empty at index 1,
\* accepting; t1 from N0 to N1 and t2 from N1 to N2, and no other edge
TreNodi(s) ==
    /\ Len(s.nodi) = 3
    /\ Len(s.archi) = 2
    /\ \E n0, n1, n2 \in Range(s.nodi) :
          /\ NodoCiclo(s, n0, "", FALSE, 0)
          /\ NodoCiclo(s, n1, "x", FALSE, 1)
          /\ NodoCiclo(s, n2, "", TRUE, 1)
          /\ s.nodoIniziale = n0
          /\ ArcoCiclo(s, "t1", n0, n1)
          /\ ArcoCiclo(s, "t2", n1, n2)

\* C23 as stated: in the minimal loop the space of the observation has
\* exactly the two nodes N0 (accepting, index 0) and N1 (x on L, index 1)
\* with t2 from N1 back to N0, both are kept by the pruning, and the regular
\* expression of the space and the diagnosis of the diagnoser are "f".
CicloMinimoDueNodi ==
    CicloMinimo =>
        /\ pc \in {"compito2pota", "compito3"} => DueNodi(scol)
        /\ pc = "compito4" => d3 = <<"f">>
        /\ pc = "fine" => d5 = <<"f">>

\* C23, amended: in the minimal loop the space of the observation has
\* exactly three nodes, N0 = ((a0, b0), L empty, not accepting, index 0),
\* N1 = ((a0, b0), x on L, not accepting, index 1) and N2 = ((a0, b0),
\* L empty, accepting, index 1), with t1 from N0 to N1 and t2 from N1 to
\* N2; the three are kept by the pruning, and the regular expression of the
\* space and the diagnosis of the diagnoser are "f".
CicloMinimoTreNodi ==
    CicloMinimo =>
        /\ pc \in {"compito2pota", "compito3"} => TreNodi(scol)
        /\ pc \in {"compito3", "compito4", "compito5", "fine"} => errore = NessunErrore
        /\ pc \in {"compito4", "compito5", "fine"} => d3 = <<"f">>
        /\ pc = "fine" => d5 = <<"f">>

\* the minimal loop after the last task, with its regular expression and
\* its diagnosis computed
TestimoneCicloMinimoTreNodi ==
    /\ CicloMinimo
    /\ pc = "fine"
    /\ Len(scol.nodi) = 3
    /\ d3 = <<"f">>
    /\ d5 = <<"f">>

(***************************************************************************)
(* espressioneRegolare on its own, one iteration of its loop at a time.    *)
(* The input is a pruned space: every node is reached from the initial     *)
(* node and reaches an acceptance node, the nodes differ by value, and     *)
(* when the initial node is not accepting no acceptance node leads back to *)
(* it (the observation index never decreases along an edge).  argomento is *)
(* the working graph before the last operation and risultato the one       *)
(* after it, both with the nodes n0 and nq (0 before the normalization).   *)
(***************************************************************************)
\* the edges of an input space are at most MaxArchi
MaxArchi == 4

\* the loop is followed while the relevance strings are at most MaxRilevanza long
MaxRilevanza == 200

\* the states of the nodes of an input space, the first one initial
StatiGrafo == <<"s0", "s1", "s2">>

\* the relevance of the edges of an input space, in the order of the edges
Lettere == <<"a", "b", "c", "d", "f">>

\* the edges an input space is chosen from: source, target, and a second
\* copy of each for parallel edges
Candidati ==
    LET n == Len(StatiGrafo)
    IN [k \in 1..(2 * n * n) |->
           [nodo0 |-> ((k - 1) \div (2 * n)) + 1,
            nodo1 |-> (((k - 1) \div 2) % n) + 1,
            copia |-> ((k - 1) % 2) + 1]]

\* the space with the candidate edges X, the acceptance nodes F and the
\* edge number vuoto without relevance
GrafoDa(X, F, vuoto) ==
    LET n == Len(StatiGrafo)
        scelti == SelectSeq([k \in 1..(2 * n * n) |-> k], LAMBDA k : k \in X)
        nodi == [i \in 1..n |->
                    [NodoNuovo EXCEPT !.nome = ToString(i - 1), !.stati = <<StatiGrafo[i]>>,
                                      !.isPotato = FALSE, !.isFinale = i \in F]]
        vuota == [nodo |-> nodi, arco |-> <<>>, nodi |-> [i \in 1..n |-> i],
                  archi |-> <<>>, nodoIniziale |-> 1]
    IN AggiungiArchi(vuota,
          [j \in DOMAIN scelti |->
              [Arco(Candidati[scelti[j]].nodo0, Candidati[scelti[j]].nodo1, <<>>,
                    IF j = vuoto THEN <<>> ELSE <<Lettere[j]>>, "")
                 EXCEPT !.isPotato = FALSE]])

\* the input spaces
Grafi ==
    LET n == Len(StatiGrafo)
        scelte == {X \in SUBSET (1..(2 * n * n)) :
                      /\ Cardinality(X) \in 1..MaxArchi
                      /\ \A k \in X : Candidati[k].copia = 2 => (k - 1) \in X}
        archi(X) == {<<Candidati[k].nodo0, Candidati[k].nodo1>> : k \in X}
        passo(X, S) == S \cup {c[2] : c \in {d \in archi(X) : d[1] \in S}}
        indietro(X, S) == S \cup {c[1] : c \in {d \in archi(X) : d[2] \in S}}
        \* three rounds close a set of at most three nodes
        da(X, S) == passo(X, passo(X, passo(X, S)))
        verso(X, S) == indietro(X, indietro(X, indietro(X, S)))
    IN {GrafoDa(c[1], c[2], c[3]) :
           c \in {d \in scelte \X (SUBSET (1..n)) \X (0..MaxArchi) :
                     /\ d[3] <= Cardinality(d[1])
                     /\ d[2] # {}
                     /\ da(d[1], {1}) = 1..n
                     /\ verso(d[1], d[2]) = 1..n
                     /\ 1 \notin d[2] => 1 \notin passo(d[1], da(d[1], d[2]))}}

InitRiduzione ==
    /\ argomento \in {[scN |-> g, n0 |-> 0, nq |-> 0] : g \in Grafi}
    /\ risultato = <<>>
    /\ pc = "espressioneRegolare"
    /\ seme \in {0, 1}
    /\ rete = ReteDa({})
    /\ ol = <<>>
    /\ sc = SpazioNuovo
    /\ scol = SpazioNuovo
    /\ d3 = <<>>
    /\ diag = <<>>
    /\ d5 = <<>>
    /\ errore = NessunErrore

\* lines 1170-1234: the deep copy and the nodes n0 and nq
Normalizza ==
    /\ pc = "espressioneRegolare"
    /\ \E i \in {NormalizzaIniziale(DeepCopy(argomento.scN).sc)} :
          \E f \in {NormalizzaFinale(i.sc)} :
             risultato' = <<[scN |-> f.sc, n0 |-> i.n0, nq |-> f.nq]>>
    /\ pc' = "normalizzato"
    /\ UNCHANGED <<argomento, rete, ol, seme, sc, scol, d3, diag, d5, errore>>

\* lines 1242-1364: one iteration of the while loop
Passo ==
    /\ pc \in {"normalizzato", "ridotto"}
    /\ Len(risultato[1].scN.archi) > 1
    /\ \A a \in Range(risultato[1].scN.archi) :
          Len(risultato[1].scN.arco[a].rilevanza) <= MaxRilevanza
    /\ argomento' = risultato[1]
    /\ risultato' = <<[risultato[1] EXCEPT
                         !.scN = RiduciPasso(@, risultato[1].n0, risultato[1].nq)]>>
    /\ pc' = "ridotto"
    /\ UNCHANGED <<rete, ol, seme, sc, scol, d3, diag, d5, errore>>

\* line 1375: the relevance of the edge that is left
Ritorna ==
    /\ pc \in {"normalizzato", "ridotto"}
    /\ Len(risultato[1].scN.archi) = 1
    /\ d3' = risultato[1].scN.arco[risultato[1].scN.archi[1]].rilevanza
    /\ pc' = "return"
    /\ UNCHANGED <<argomento, risultato, rete, ol, seme, sc, scol, diag, d5, errore>>

NextRiduzione ==
    \/ Normalizza
    \/ Passo
    \/ Ritorna

SpecRiduzione == InitRiduzione /\ [][NextRiduzione]_vars

\* the working graph before and after the last iteration of the loop
Prima == argomento.scN

Dopo == risultato[1].scN

\* neither a series nor a parallel is found in g: the loop takes its third branch
TerzoRamo(g) == TrovaSerieArchi(g) = <<>> /\ TrovaParalleloArchi(g) = <<>>

\* the edges of g that enter w, leave w, and loop on w
EntrantiIn(g, w) == {a \in Range(g.archi) : g.arco[a].nodo1 = w /\ g.arco[a].nodo0 # w}

UscentiDa(g, w) == {a \in Range(g.archi) : g.arco[a].nodo0 = w /\ g.arco[a].nodo1 # w}

CappiSu(g, w) == {a \in Range(g.archi) : g.arco[a].nodo0 = w /\ g.arco[a].nodo1 = w}

\* the star factor of the loop on w: empty when w has no loop or the label
\* of the loop is empty or epsilon
FattoreStella(g, w) ==
    LET etichette == {g.arco[c].rilevanza : c \in CappiSu(g, w)} \ {<<>>, <<Eps>>}
    IN IF etichette = {} THEN <<>>
       ELSE <<"(">> \o (CHOOSE r \in etichette : TRUE) \o <<")", "*">>

\* h is g without the node w: the edges of g that do not touch w are kept,
\* the others are deleted, and for every entering edge e and leaving edge u
\* exactly one edge from the source of e to the target of u is added, with
\* the alternatives alpha (loop)* beta
EliminatoBene(g, h, w) ==
    LET nuovi == Range(h.archi) \ Range(g.archi)
        coppie == EntrantiIn(g, w) \X UscentiDa(g, w)
        traI(c) == {a \in nuovi : /\ h.arco[a].nodo0 = g.arco[c[1]].nodo0
                                  /\ h.arco[a].nodo1 = g.arco[c[2]].nodo1}
    IN /\ Range(h.archi) \cap Range(g.archi)
             = Range(g.archi) \ (EntrantiIn(g, w) \cup UscentiDa(g, w) \cup CappiSu(g, w))
       /\ Cardinality(nuovi) = Cardinality(coppie)
       /\ Len(h.archi) = Cardinality(Range(h.archi))
       /\ \A c \in coppie :
             /\ Cardinality(traI(c)) = 1
             /\ \A a \in traI(c) :
                   AlternativeDi(h.arco[a].rilevanza)
                       = {alfa \o FattoreStella(g, w) \o beta :
                             alfa \in AlternativeDi(g.arco[c[1]].rilevanza),
                             beta \in AlternativeDi(g.arco[c[2]].rilevanza)}

\* the input space s0 -a-> s1, loop b on s1, s1 -c-> s2, s2 accepting
CappioInMezzo ==
    GrafoDa({k \in DOMAIN Candidati :
                /\ Candidati[k].copia = 1
                /\ <<Candidati[k].nodo0, Candidati[k].nodo1>> \in {<<1, 2>>, <<2, 2>>, <<2, 3>>}},
            {3}, 0)

\* C24: when an iteration of the loop of espressioneRegolare eliminates a
\* node w, w is neither n0 nor nq, it is the only node removed, all its
\* edges are removed, and for every edge entering w and every edge leaving w
\* (loops apart) exactly one edge from the source of the first to the target
\* of the second is added, whose alternatives are alpha (loop)* beta for the
\* alternatives alpha and beta of the two labels, the star factor left out
\* when w has no loop or its label is empty or epsilon; s0 -a-> s1, loop b
\* on s1, s1 -c-> s2 gives an expression that denotes a b* c.
NodoIntermedioEsatto ==
    /\ pc = "ridotto" /\ TerzoRamo(Prima) =>
          /\ Cardinality(Range(Prima.nodi) \ Range(Dopo.nodi)) = 1
          /\ Range(Dopo.nodi) \subseteq Range(Prima.nodi)
          /\ \A w \in Range(Prima.nodi) \ Range(Dopo.nodi) :
                /\ w \notin {argomento.n0, argomento.nq}
                /\ EliminatoBene(Prima, Dopo, w)
    /\ pc = "return" /\ argomento.scN = CappioInMezzo =>
          Linguaggio(d3) = Linguaggio(<<"a", "b", "*", "c">>)

\* a node with a labelled loop, two entering edges and two leaving edges,
\* one of them with two alternatives, has been eliminated
TestimoneNodoIntermedioEsatto ==
    /\ pc = "ridotto"
    /\ TerzoRamo(Prima)
    /\ \E w \in Range(Prima.nodi) \ Range(Dopo.nodi) :
          /\ FattoreStella(Prima, w) # <<>>
          /\ Cardinality(EntrantiIn(Prima, w)) >= 2
          /\ Cardinality(UscentiDa(Prima, w)) >= 2
          /\ \E e \in EntrantiIn(Prima, w) \cup UscentiDa(Prima, w) :
                Cardinality(AlternativeDi(Prima.arco[e].rilevanza)) >= 2

(***************************************************************************)
(* The edges of the space of the network.                                  *)
(***************************************************************************)
\* the transitions of the network that leave a current state of the node n
TransizioniDa(r, n) == {t \in Range(TutteTransizioni(r)) : t.stato0 \in Range(n.stati)}

\* the edges of the space s that leave node n for the transition t
ArchiPer(s, n, t) ==
    {a \in Range(s.archi) : s.arco[a].nodo0 = n /\ s.arco[a].transizione = <<t.nome>>}

\* C25: for every node n of the space built by creaSpazioComportamentale
\* and every transition t that leaves a current state of n, the space has
\* exactly one edge from n for t if t can fire at n and none otherwise; the
\* edge goes to the node equal to the result of the firing and carries the
\* observability and the relevance of t; the space has no other edge.
ArchiCompleti ==
    pc = "compito1pota" =>
        /\ \A n \in Range(sc.nodi) :
              \A t \in TransizioniDa(rete, sc.nodo[n]) :
                  LET succ == VerificaFattibilitaTransizione(sc.nodo[n], t)
                  IN /\ Cardinality(ArchiPer(sc, n, t)) = IF succ # <<>> THEN 1 ELSE 0
                     /\ \A a \in ArchiPer(sc, n, t) :
                           /\ sc.arco[a].nodo1 \in Range(sc.nodi)
                           /\ StessoContenuto(sc.nodo[sc.arco[a].nodo1], succ[1])
                           /\ sc.arco[a].osservabilita = t.osservabilita
                           /\ sc.arco[a].rilevanza = t.rilevanza
        /\ Len(sc.archi) = Cardinality(Range(sc.archi))
        /\ \A a \in Range(sc.archi) :
              /\ sc.arco[a].nodo0 \in Range(sc.nodi)
              /\ \E t \in TransizioniDa(rete, sc.nodo[sc.arco[a].nodo0]) :
                    a \in ArchiPer(sc, sc.arco[a].nodo0, t)

\* a space where a node has a transition that fires and one that does not,
\* and an edge that goes back to a node found before
TestimoneArchiCompleti ==
    /\ pc = "compito1pota"
    /\ \E n \in Range(sc.nodi) :
          /\ \E t \in TransizioniDa(rete, sc.nodo[n]) :
                VerificaFattibilitaTransizione(sc.nodo[n], t) = <<>>
          /\ \E t \in TransizioniDa(rete, sc.nodo[n]) :
                VerificaFattibilitaTransizione(sc.nodo[n], t) # <<>>
    /\ \E a \in Range(sc.archi) : sc.arco[a].nodo1 = sc.nodoIniziale
    /\ Len(sc.nodi) >= 3

(***************************************************************************)
(* decidiPotatura on its own, one iteration of its loops at a time.  The   *)
(* input is a space as the construction leaves it: every node is reached   *)
(* from the initial node, the nodes differ by value, any of them may be    *)
(* accepting.  argomento holds the space sc, the stack archiDaEsplorare    *)
(* (pila), the node nodoCorrente and the position i of the for loop over   *)
(* self.nodi.                                                              *)
(***************************************************************************)
\* the while loop is followed while the stack holds at most MaxPila edges
MaxPila == 6

\* the input spaces of decidiPotatura
Spazi ==
    LET n == Len(StatiGrafo)
        scelte == {X \in SUBSET (1..(2 * n * n)) :
                      /\ Cardinality(X) <= MaxArchi
                      /\ \A k \in X : Candidati[k].copia = 2 => (k - 1) \in X}
        archi(X) == {<<Candidati[k].nodo0, Candidati[k].nodo1>> : k \in X}
        passo(X, S) == S \cup {c[2] : c \in {d \in archi(X) : d[1] \in S}}
    IN {GrafoDa(c[1], c[2], 0) :
           c \in {d \in scelte \X (SUBSET (1..n)) :
                     passo(d[1], passo(d[1], passo(d[1], {1}))) = 1..n}}

InitPotatura ==
    /\ argomento \in {[sc |-> g, pila |-> <<>>, nodoCorrente |-> 0, i |-> 0] : g \in Spazi}
    /\ risultato = <<>>
    /\ pc = "decidiPotatura"
    /\ seme = 0
    /\ rete = ReteDa({})
    /\ ol = <<>>
    /\ sc = SpazioNuovo
    /\ scol = SpazioNuovo
    /\ d3 = <<>>
    /\ diag = <<>>
    /\ d5 = <<>>
    /\ errore = NessunErrore

\* lines 933 and 939: everything is marked and the stack is empty
Segna ==
    /\ pc = "decidiPotatura"
    /\ argomento' = [sc |-> SetAllIsPotato(argomento.sc, TRUE), pila |-> <<>>,
                     nodoCorrente |-> 0, i |-> 1]
    /\ pc' = "for"
    /\ UNCHANGED <<risultato, rete, ol, seme, sc, scol, d3, diag, d5, errore>>

\* lines 942-947: the next node of self.nodi; the walk starts from it when
\* it is accepting and still marked
Scorri ==
    /\ pc = "for"
    /\ argomento.i <= Len(argomento.sc.nodi)
    /\ \E n \in {argomento.sc.nodi[argomento.i]} :
          IF argomento.sc.nodo[n].isFinale /\ argomento.sc.nodo[n].isPotato
          THEN /\ argomento' = [argomento EXCEPT !.nodoCorrente = n]
               /\ pc' = "while"
          ELSE /\ argomento' = [argomento EXCEPT !.i = @ + 1]
               /\ pc' = "for"
    /\ UNCHANGED <<risultato, rete, ol, seme, sc, scol, d3, diag, d5, errore>>

\* lines 953-971: one iteration of the while loop
Risali ==
    /\ pc = "while"
    /\ Len(argomento.pila) <= MaxPila
    /\ \E r \in {RisaliPasso([sc |-> argomento.sc, pila |-> argomento.pila,
                              nodoCorrente |-> argomento.nodoCorrente])} :
          /\ argomento' = [sc |-> r.sc, pila |-> r.pila, nodoCorrente |-> r.nodoCorrente,
                           i |-> IF r.nodoCorrente = 0 THEN argomento.i + 1 ELSE argomento.i]
          /\ pc' = IF r.nodoCorrente = 0 THEN "for" ELSE "while"
    /\ UNCHANGED <<risultato, rete, ol, seme, sc, scol, d3, diag, d5, errore>>

\* the for loop is over: decidiPotatura returns
Deciso ==
    /\ pc = "for"
    /\ argomento.i > Len(argomento.sc.nodi)
    /\ pc' = "deciso"
    /\ UNCHANGED <<argomento, risultato, rete, ol, seme, sc, scol, d3, diag, d5, errore>>

NextPotatura ==
    \/ Segna
    \/ Scorri
    \/ Risali
    \/ Deciso

SpecPotatura == InitPotatura /\ [][NextPotatura]_vars

\* the method keeps running until it returns
EquaPotatura == SpecPotatura /\ WF_vars(NextPotatura)

\* an iteration of the while loop leaves on the stack, above what was there,
\* only edges whose source was marked and was not the node in hand, and
\* when it has pushed an edge the node it moves to was marked.
SoloSegnati ==
    [][pc = "while" =>
          /\ \A k \in (Len(argomento.pila) + 1)..Len(argomento'.pila) :
                /\ argomento.sc.nodo[argomento.sc.arco[argomento'.pila[k]].nodo0].isPotato
                /\ argomento.sc.arco[argomento'.pila[k]].nodo0 # argomento.nodoCorrente
          /\ Len(argomento'.pila) >= Len(argomento.pila) /\ argomento'.nodoCorrente # 0 =>
                /\ argomento.sc.nodo[argomento'.nodoCorrente].isPotato
                /\ argomento'.nodoCorrente # argomento.nodoCorrente]_vars

\* C26: decidiPotatura returns on every space, spaces with cycles and loops
\* included, and an edge is pushed on the stack only when its source node is
\* still marked.
PotaturaTermina == SoloSegnati /\ <>(pc = "deciso")

\* decidiPotatura has returned on a space where a node it keeps has a loop
\* and lies on a cycle through another node, and a node stays marked
TestimonePotaturaTermina ==
    /\ pc = "deciso"
    /\ \E a, b, c \in Range(argomento.sc.archi) :
          /\ argomento.sc.arco[a].nodo0 = argomento.sc.arco[a].nodo1
          /\ argomento.sc.arco[b].nodo0 = argomento.sc.arco[a].nodo0
          /\ argomento.sc.arco[b].nodo1 # argomento.sc.arco[a].nodo0
          /\ argomento.sc.arco[c].nodo0 = argomento.sc.arco[b].nodo1
          /\ argomento.sc.arco[c].nodo1 = argomento.sc.arco[a].nodo0
          /\ ~argomento.sc.nodo[argomento.sc.arco[a].nodo0].isPotato
    /\ \E n \in Range(argomento.sc.nodi) : argomento.sc.nodo[n].isPotato

\* the accepting nodes of the space g
Accettanti(g) == {n \in Range(g.nodi) : g.nodo[n].isFinale}

\* a is an edge of h without relevance and without observability, the
\* relevance written empty or epsilon
ArcoVuoto(h, a) == h.arco[a].rilevanza \in {<<>>, <<Eps>>} /\ h.arco[a].osservabilita = ""

\* C27: the normalization of espressioneRegolare introduces a new node n0
\* with one empty edge to the initial node if and only if an edge enters the
\* initial node, and n0 is the initial node otherwise; it introduces a new
\* accepting node nq with one empty edge from every acceptance node, whose
\* flags are cleared, if and only if there are two acceptance nodes or more
\* or the only one has an outgoing edge, and nq is the only acceptance node
\* otherwise; afterwards no edge enters n0, no edge leaves nq and nq is the
\* only accepting node; the edges of the space are kept.
NormalizzazioneEsatta ==
    pc = "normalizzato" =>
        LET g == argomento.scN
            h == risultato[1].scN
            n0 == risultato[1].n0
            nq == risultato[1].nq
            nuovi == Range(h.archi) \ Range(g.archi)
        IN /\ n0 \notin Range(g.nodi)
                 <=> \E a \in Range(g.archi) : g.arco[a].nodo1 = g.nodoIniziale
           /\ IF n0 \in Range(g.nodi) THEN n0 = g.nodoIniziale
              ELSE /\ n0 \in Range(h.nodi)
                   /\ Cardinality({a \in Range(h.archi) : h.arco[a].nodo0 = n0}) = 1
                   /\ \A a \in Range(h.archi) :
                         h.arco[a].nodo0 = n0 =>
                            h.arco[a].nodo1 = g.nodoIniziale /\ ArcoVuoto(h, a)
           /\ nq \notin Range(g.nodi)
                 <=> \/ Cardinality(Accettanti(g)) > 1
                     \/ \E f \in Accettanti(g) : \E a \in Range(g.archi) : g.arco[a].nodo0 = f
           /\ IF nq \in Range(g.nodi) THEN Accettanti(g) = {nq}
              ELSE /\ nq \in Range(h.nodi)
                   /\ \A f \in Accettanti(g) :
                         Cardinality({a \in Range(h.archi) :
                                         h.arco[a].nodo0 = f /\ h.arco[a].nodo1 = nq}) = 1
                   /\ \A a \in Range(h.archi) :
                         h.arco[a].nodo1 = nq =>
                            h.arco[a].nodo0 \in Accettanti(g) /\ ArcoVuoto(h, a)
           /\ \A a \in Range(h.archi) : h.arco[a].nodo1 # n0 /\ h.arco[a].nodo0 # nq
           /\ Accettanti(h) = {nq}
           /\ Range(g.archi) \subseteq Range(h.archi)
           /\ \A a \in Range(g.archi) :
                 /\ h.arco[a].nodo0 = g.arco[a].nodo0
                 /\ h.arco[a].nodo1 = g.arco[a].nodo1
                 /\ h.arco[a].rilevanza = g.arco[a].rilevanza
           /\ \A a \in nuovi : h.arco[a].nodo0 = n0 \/ h.arco[a].nodo1 = nq
           /\ Range(h.nodi) = Range(g.nodi) \cup {n0, nq}
           /\ Len(h.archi) = Cardinality(Range(h.archi))

\* a normalized space with a new n0 and a new nq that takes the place of
\* two acceptance nodes
TestimoneNormalizzazioneEsatta ==
    /\ pc = "normalizzato"
    /\ risultato[1].n0 \notin Range(argomento.scN.nodi)
    /\ risultato[1].nq \notin Range(argomento.scN.nodi)
    /\ Cardinality(Accettanti(argomento.scN)) = 2

RECURSIVE AlternativeSerie(_)
\* the alternatives of the concatenation of the relevances given, in order
AlternativeSerie(rilevanze) ==
    IF rilevanze = <<>> THEN {<<>>}
    ELSE {x \o y : x \in AlternativeDi(Head(rilevanze)),
                   y \in AlternativeSerie(Tail(rilevanze))}

\* the nodes inside the chain serie of g: the targets of its edges but the last
InterniDi(g, serie) == {g.arco[serie[i]].nodo1 : i \in 1..(Len(serie) - 1)}

\* the chain of three edges a, b, c is replaced by one edge labelled abc
EsempioSerie(g, h, serie) ==
    Rilevanze(g, serie) = <<<<"a">>, <<"b">>, <<"c">>>>
        => \E a \in Range(h.archi) \ Range(g.archi) : h.arco[a].rilevanza = <<"a", "b", "c">>

\* C28: the chain returned by trovaSerieArchi has two edges or more, every
\* edge starts where the one before ends, and every node inside the chain
\* has exactly one entering and exactly one leaving edge; the iteration of
\* the loop that finds it deletes the nodes inside the chain and the edges of
\* the chain, nothing else, and adds one edge from the first node of the
\* chain to its last node whose alternatives are those of the concatenation
\* of the relevances of the chain in order; a, b, c in sequence give abc.
SerieEsatta ==
    (pc = "ridotto" /\ TrovaSerieArchi(Prima) # <<>>) =>
        LET g == Prima
            h == Dopo
            serie == TrovaSerieArchi(g)
            primo == g.arco[serie[1]].nodo0
            ultimo == g.arco[serie[Len(serie)]].nodo1
            nuovi == Range(h.archi) \ Range(g.archi)
        IN /\ Len(serie) >= 2
           /\ Cardinality(Range(serie)) = Len(serie)
           /\ Range(serie) \subseteq Range(g.archi)
           /\ \A i \in 1..(Len(serie) - 1) : g.arco[serie[i]].nodo1 = g.arco[serie[i + 1]].nodo0
           /\ \A w \in InterniDi(g, serie) :
                 /\ Cardinality({a \in Range(g.archi) : g.arco[a].nodo1 = w}) = 1
                 /\ Cardinality({a \in Range(g.archi) : g.arco[a].nodo0 = w}) = 1
           /\ Range(h.nodi) = Range(g.nodi) \ InterniDi(g, serie)
           /\ {primo, ultimo} \subseteq Range(h.nodi)
           /\ Range(h.archi) \cap Range(g.archi) = Range(g.archi) \ Range(serie)
           /\ Cardinality(nuovi) = 1
           /\ Len(h.archi) = Cardinality(Range(h.archi))
           /\ \A a \in nuovi :
                 /\ h.arco[a].nodo0 = primo
                 /\ h.arco[a].nodo1 = ultimo
                 /\ AlternativeDi(h.arco[a].rilevanza) = AlternativeSerie(Rilevanze(g, serie))
           /\ EsempioSerie(g, h, serie)

\* a chain of three edges a, b, c has been replaced
TestimoneSerieEsatta ==
    /\ pc = "ridotto"
    /\ TrovaSerieArchi(Prima) # <<>>
    /\ Rilevanze(Prima, TrovaSerieArchi(Prima)) = <<<<"a">>, <<"b">>, <<"c">>>>
    /\ \E a \in Range(Dopo.archi) \ Range(Prima.archi) :
          Dopo.arco[a].rilevanza = <<"a", "b", "c">>

\* the edges of g from u to v
ArchiTra(g, u, v) == {a \in Range(g.archi) : g.arco[a].nodo0 = u /\ g.arco[a].nodo1 = v}

\* some pair of nodes of g is joined by two edges or more in the same direction
EsisteParallelo(g) ==
    \E u \in Range(g.nodi), v \in Range(g.nodi) : Cardinality(ArchiTra(g, u, v)) >= 2

\* h is g with all the edges from u to v replaced by one edge from u to v
\* that has the alternatives of all of them
FascioSostituito(g, h, u, v) ==
    LET nuovi == Range(h.archi) \ Range(g.archi)
    IN /\ Cardinality(ArchiTra(g, u, v)) >= 2
       /\ Range(h.archi) \cap Range(g.archi) = Range(g.archi) \ ArchiTra(g, u, v)
       /\ Cardinality(nuovi) = 1
       /\ Len(h.archi) = Cardinality(Range(h.archi))
       /\ ArchiTra(h, u, v) = nuovi
       /\ \A a \in nuovi :
             AlternativeDi(h.arco[a].rilevanza)
                = UNION {AlternativeDi(g.arco[b].rilevanza) : b \in ArchiTra(g, u, v)}

\* C29: when the working graph has no series and some pair of nodes (u, v)
\* has two edges or more from u to v, the iteration of the loop replaces all
\* the edges from u to v of one such pair by a single edge from u to v whose
\* top-level alternatives are the union of the alternatives of their
\* relevances, and removes no node; two edges a and b give {a, b}.
ParalleloEsatto ==
    (pc = "ridotto" /\ TrovaSerieArchi(Prima) = <<>> /\ EsisteParallelo(Prima)) =>
        /\ Dopo.nodi = Prima.nodi
        /\ \E u \in Range(Prima.nodi), v \in Range(Prima.nodi) :
              /\ FascioSostituito(Prima, Dopo, u, v)
              /\ {Prima.arco[b].rilevanza : b \in ArchiTra(Prima, u, v)} = {<<"a">>, <<"b">>}
                    => \A a \in ArchiTra(Dopo, u, v) :
                          AlternativeDi(Dopo.arco[a].rilevanza) = {<<"a">>, <<"b">>}

\* two edges a and b between the same nodes have been replaced by one edge
\* with the alternatives a and b
TestimoneParalleloEsatto ==
    /\ pc = "ridotto"
    /\ TrovaSerieArchi(Prima) = <<>>
    /\ \E u \in Range(Prima.nodi), v \in Range(Prima.nodi) :
          /\ Cardinality(ArchiTra(Prima, u, v)) = 2
          /\ {Prima.arco[b].rilevanza : b \in ArchiTra(Prima, u, v)} = {<<"a">>, <<"b">>}
          /\ Cardinality(ArchiTra(Dopo, u, v)) = 1
          /\ \A a \in ArchiTra(Dopo, u, v) :
                AlternativeDi(Dopo.arco[a].rilevanza) = {<<"a">>, <<"b">>}

(***************************************************************************)
(* Chiusura.espressioniRegolari, one iteration of its reduction loop after *)
(* the other, on the closure of the initial node of every space of Grafi   *)
(* taken as a space of silent edges: the closure is the whole space and    *)
(* its acceptance nodes are the accepting nodes.  argomento is the working *)
(* state before the last operation, risultato the one after it.            *)
(***************************************************************************)
\* the working state of espressioniRegolari on the closure ch of the space
\* self when the while loop of line 2001 is entered
LavoroIniziale(self, ch) ==
    LET copia == DeepCopyChiusura(
                     [nodo |-> self.nodo, arco |-> self.arco, nodi |-> ch.nodi,
                      archi |-> ch.archi, nodoIniziale |-> ch.nodoIniziale,
                      nodiUscita |-> ch.nodiUscita,
                      nodiAccettazione |-> ch.nodiAccettazione])
        i == NormalizzaIniziale(TogliOsservabili(copia.sc))
        f == NormalizzaFinaleChiusura(i.sc)
    IN [sc |-> f.sc, pedici |-> <<>>, n0 |-> i.n0, nq |-> f.nq]

\* some chain of two edges of the working graph is a series whose first
\* edge has no subscript: a node with one entering and one leaving edge
EsisteSerieAmmessa(st) ==
    \E w \in Range(st.sc.nodi) :
       /\ Len(st.sc.nodo[w].archiUscenti) = 1
       /\ NumeroArchiEntranti(st.sc, w) = 1
       /\ \A e \in Range(st.sc.archi) :
             st.sc.arco[e].nodo1 = w =>
                st.sc.arco[e].nodo0 # w /\ PediceDi(st.pedici, e) = <<>>

\* some node of the working graph has two edges with the same subscript, or
\* both without, to the same target
EsisteParalleloStessoPedice(st) ==
    \E n \in Range(st.sc.nodi) :
       \E a, b \in Range(st.sc.nodo[n].archiUscenti) :
          /\ a # b
          /\ st.sc.arco[a].nodo1 = st.sc.arco[b].nodo1
          /\ PediceDi(st.pedici, a) = PediceDi(st.pedici, b)

InitChiusura ==
    /\ pc = "espressioniRegolari"
    /\ \E g \in Grafi : argomento = [sc |-> g, pedici |-> <<>>, n0 |-> 0, nq |-> 0]
    /\ risultato = <<>>
    /\ seme \in {0, 1}
    /\ rete = ReteDa({})
    /\ ol = <<>>
    /\ sc = SpazioNuovo
    /\ scol = SpazioNuovo
    /\ d3 = <<>>
    /\ diag = <<>>
    /\ d5 = <<>>
    /\ errore = [compito1 |-> "", compito2 |-> ""]

\* lines 1391-1425 and 1931-1998: the closure of the initial node, its
\* working copy and the normalization
ChiudiENormalizza ==
    /\ pc = "espressioniRegolari"
    /\ risultato' = <<LavoroIniziale(argomento.sc,
                         ChiusuraSilenziosa(argomento.sc, argomento.sc.nodoIniziale))>>
    /\ pc' = "normalizzata"
    /\ UNCHANGED <<argomento, rete, ol, seme, sc, scol, d3, diag, d5, errore>>

\* lines 2001-2230: one iteration of the while loop
PassoChiusura ==
    /\ pc \in {"normalizzata", "ridotta"}
    /\ DaRidurre(risultato[1])
    /\ \A a \in Range(risultato[1].sc.archi) :
          Len(risultato[1].sc.arco[a].rilevanza) <= MaxRilevanza
    /\ argomento' = risultato[1]
    /\ risultato' = <<RiduciPassoChiusura(risultato[1])>>
    /\ pc' = "ridotta"
    /\ UNCHANGED <<rete, ol, seme, sc, scol, d3, diag, d5, errore>>

\* lines 2239-2247: the loop is over, the labels left are the decorations
DecoraChiusura ==
    /\ pc \in {"normalizzata", "ridotta"}
    /\ ~DaRidurre(risultato[1])
    /\ diag' = DecoraDa(<<>>, risultato[1], risultato[1].sc.archi)
    /\ pc' = "decorata"
    /\ UNCHANGED <<argomento, risultato, rete, ol, seme, sc, scol, d3, d5, errore>>

NextChiusura ==
    \/ ChiudiENormalizza
    \/ PassoChiusura
    \/ DecoraChiusura

SpecChiusura == InitChiusura /\ [][NextChiusura]_vars

\* some chain of two edges of g is a series: a node with one entering edge,
\* not a loop, and one leaving edge
EsisteSerie(g) ==
    \E w \in Range(g.nodi) :
       /\ Cardinality({a \in Range(g.archi) : g.arco[a].nodo0 = w}) = 1
       /\ Cardinality({a \in Range(g.archi) : g.arco[a].nodo1 = w}) = 1
       /\ \A e \in Range(g.archi) : g.arco[e].nodo1 = w => g.arco[e].nodo0 # w

\* the priority of the three rewrites in the loop of espressioneRegolare:
\* the series when a series exists, else the parallel when two edges join
\* the same nodes, else the intermediate node
PrioritaRiduzione ==
    pc = "ridotto" =>
        /\ EsisteSerie(Prima) =>
              /\ TrovaSerieArchi(Prima) # <<>>
              /\ Dopo = RiduciSerie(Prima, TrovaSerieArchi(Prima))
        /\ ~EsisteSerie(Prima) /\ EsisteParallelo(Prima) =>
              /\ TrovaParalleloArchi(Prima) # <<>>
              /\ Dopo = RiduciParallelo(Prima, TrovaParalleloArchi(Prima))
        /\ ~EsisteSerie(Prima) /\ ~EsisteParallelo(Prima) =>
              Dopo = RiduciNodoIntermedio(Prima, risultato[1].n0, risultato[1].nq)

\* C30: at every iteration of the reduction loops of espressioneRegolare and
\* of espressioniRegolari the series rewrite is applied if a series (that
\* can be reduced, in a closure) exists anywhere in the working graph;
\* otherwise the parallel rewrite is applied, and no node is removed, if any
\* node has two edges or more (with the same subscript, in a closure) to the
\* same target; the intermediate node is removed only when there is neither.
\* This is the statement for the loop of espressioniRegolari.
PrioritaChiusura ==
    pc = "ridotta" =>
        /\ EsisteSerieAmmessa(argomento) =>
              /\ SerieAmmessa(TrovaSerieArchi(argomento.sc), argomento.pedici)
              /\ risultato[1] = RiduciSerieChiusura(argomento, TrovaSerieArchi(argomento.sc))
        /\ ~EsisteSerieAmmessa(argomento) /\ EsisteParalleloStessoPedice(argomento) =>
              /\ risultato[1].sc.nodi = argomento.sc.nodi
              /\ Len(risultato[1].sc.archi) < Len(argomento.sc.archi)
        /\ ~EsisteSerieAmmessa(argomento) /\ ~EsisteParalleloStessoPedice(argomento) =>
              risultato[1] = RiduciNodoIntermedioChiusura(argomento)

\* the loop goes on and a relevance of the working graph is longer than
\* MaxRilevanza: the run is cut there
Tagliato ==
    /\ pc \in {"normalizzato", "ridotto"}
    /\ Len(risultato[1].scN.archi) > 1
    /\ \E a \in Range(risultato[1].scN.archi) :
          Len(risultato[1].scN.arco[a].rilevanza) > MaxRilevanza

\* the method has a step to take: the guards of Normalizza, Passo and Ritorna
Attivo ==
    \/ pc = "espressioneRegolare"
    \/ /\ pc \in {"normalizzato", "ridotto"}
       /\ Len(risultato[1].scN.archi) >= 1
       /\ ~Tagliato

\* a step of the method as it shows on pc and argomento: every step of
\* NextRiduzione moves pc or hands the working graph over to argomento
Avanza ==
    /\ Attivo
    /\ pc' \in {"normalizzato", "ridotto", "return"}
    /\ argomento' \in {argomento} \cup (IF pc = "espressioneRegolare" THEN {}
                                         ELSE {risultato[1]})

\* espressioneRegolare is sequential code: it keeps running until it returns
EquaRiduzione == SpecRiduzione /\ WF_<<pc, argomento>>(Avanza)

\* every step of the method is a step of Avanza
PassiDiAvanza == [][NextRiduzione => <<Avanza>>_<<pc, argomento>>]_vars

\* every iteration of the loop removes a node, or keeps the nodes and
\* removes an edge
MisuraDecresce ==
    [][pc' = "ridotto" =>
          \/ Len(risultato'[1].scN.nodi) < Len(risultato[1].scN.nodi)
          \/ /\ Len(risultato'[1].scN.nodi) = Len(risultato[1].scN.nodi)
             /\ Len(risultato'[1].scN.archi) < Len(risultato[1].scN.archi)]_vars

\* at the return one edge is left, from n0 to nq, and its relevance is the
\* value returned
UnArcoDaN0ANq ==
    pc = "return" =>
        /\ Len(risultato[1].scN.archi) = 1
        /\ risultato[1].scN.arco[risultato[1].scN.archi[1]].nodo0 = risultato[1].n0
        /\ risultato[1].scN.arco[risultato[1].scN.archi[1]].nodo1 = risultato[1].nq
        /\ d3 = risultato[1].scN.arco[risultato[1].scN.archi[1]].rilevanza

\* C31: on every pruned space with an edge the loop of espressioneRegolare,
\* the search of trovaSerieArchi included, comes to its end: every iteration
\* decreases the nodes, or the edges with the same nodes, and the method
\* returns; at the return exactly one edge is left, from n0 to nq, and its
\* relevance is the expression returned.
RiduzioneTermina ==
    /\ MisuraDecresce
    /\ []UnArcoDaN0ANq
    /\ <>(pc = "return" \/ Tagliato)

\* the method has returned after its loop, with n0 and nq both new
TestimoneRiduzioneTermina ==
    /\ pc = "return"
    /\ Len(argomento.scN.archi) > 1
    /\ risultato[1].n0 > Len(StatiGrafo)
    /\ risultato[1].nq > Len(StatiGrafo)
    /\ risultato[1].scN.arco[risultato[1].scN.archi[1]].nodo0 = risultato[1].n0
    /\ risultato[1].scN.arco[risultato[1].scN.archi[1]].nodo1 = risultato[1].nq

\* the loop of espressioniRegolari goes on and a relevance of the working
\* copy is longer than MaxRilevanza: the run is cut there
TagliataChiusura ==
    /\ pc \in {"normalizzata", "ridotta"}
    /\ DaRidurre(risultato[1])
    /\ \E a \in Range(risultato[1].sc.archi) :
          Len(risultato[1].sc.arco[a].rilevanza) > MaxRilevanza

\* espressioniRegolari has a step to take: the guards of ChiudiENormalizza,
\* PassoChiusura and DecoraChiusura
AttivaChiusura ==
    \/ pc = "espressioniRegolari"
    \/ pc \in {"normalizzata", "ridotta"} /\ ~TagliataChiusura

\* a step of espressioniRegolari as it shows on pc and argomento
AvanzaChiusura ==
    /\ AttivaChiusura
    /\ pc' \in {"normalizzata", "ridotta", "decorata"}
    /\ argomento' \in {argomento} \cup (IF pc = "espressioniRegolari" THEN {}
                                         ELSE {risultato[1]})

\* espressioniRegolari is sequential code: it keeps running until its loop
\* is over
EquaChiusura == SpecChiusura /\ WF_<<pc, argomento>>(AvanzaChiusura)

\* every step of espressioniRegolari is a step of AvanzaChiusura
PassiDiAvanzaChiusura ==
    [][NextChiusura => <<AvanzaChiusura>>_<<pc, argomento>>]_vars

\* two edges of the working copy have the same subscript, or both none
DuePediciUguali(st) ==
    \E a, b \in Range(st.sc.archi) :
       a # b /\ PediceDi(st.pedici, a) = PediceDi(st.pedici, b)

\* the loop goes on exactly while more than two nodes are left or two edges
\* share a subscript
CondizioneDelCiclo ==
    pc \in {"normalizzata", "ridotta"} =>
        (DaRidurre(risultato[1])
            <=> (Len(risultato[1].sc.nodi) > 2 \/ DuePediciUguali(risultato[1])))

\* every iteration removes a node, or keeps the nodes and removes an edge
MisuraChiusuraDecresce ==
    [][pc' = "ridotta" =>
          \/ Len(risultato'[1].sc.nodi) < Len(risultato[1].sc.nodi)
          \/ /\ Len(risultato'[1].sc.nodi) = Len(risultato[1].sc.nodi)
             /\ Len(risultato'[1].sc.archi) < Len(risultato[1].sc.archi)]_vars

\* at the exit the working copy is n0 and nq, every edge goes from n0 to nq
\* and no two edges have the same subscript
UscitaChiusura ==
    pc = "decorata" =>
        /\ Range(risultato[1].sc.nodi) = {risultato[1].n0, risultato[1].nq}
        /\ Len(risultato[1].sc.nodi) = 2
        /\ \A a \in Range(risultato[1].sc.archi) :
              /\ risultato[1].sc.arco[a].nodo0 = risultato[1].n0
              /\ risultato[1].sc.arco[a].nodo1 = risultato[1].nq
        /\ ~DuePediciUguali(risultato[1])

\* C32: the loop of Chiusura.espressioniRegolari comes to its end on every
\* closure; it goes on exactly while more than two nodes are left or two
\* edges or more have the same subscript, the absent one included; at the
\* exit the working copy is made of n0 and nq, all its edges go from n0 to
\* nq and their subscripts are pairwise distinct.
ChiusuraTermina ==
    /\ MisuraChiusuraDecresce
    /\ []CondizioneDelCiclo
    /\ []UscitaChiusura
    /\ <>(pc = "decorata" \/ TagliataChiusura)

\* the loop is over after an iteration and two edges with two subscripts
\* are left
TestimoneChiusuraTermina ==
    /\ pc = "decorata"
    /\ Len(argomento.sc.nodi) > 2
    /\ Len(risultato[1].sc.archi) = 2
    /\ Len(risultato[1].pedici) = 2
    /\ ~DuePediciUguali(risultato[1])

\* the subscripts of the edges of the set given are the same in the two
\* working states
StessiPedici(prima, dopo, archi) ==
    \A a \in archi : PediceDi(dopo.pedici, a) = PediceDi(prima.pedici, a)

\* C33: a chain is collapsed by espressioniRegolari only if none of its
\* edges but the last carries a subscript.  If the last edge has the
\* subscript sigma the new edge has sigma and the concatenation of all the
\* relevances of the chain; else, if the chain ends in nq or its last but
\* one node is an acceptance node, the new edge has the concatenation of
\* all the relevances but the last and that node as subscript; otherwise it
\* has no subscript and the whole concatenation.  The entries of the edges
\* of the chain leave the map, the other entries stay.
SerieChiusuraEsatta ==
    (pc = "ridotta" /\ TrovaSerieArchi(argomento.sc) # <<>>) =>
        LET g == argomento.sc
            h == risultato[1].sc
            serie == TrovaSerieArchi(g)
            ultimo == serie[Len(serie)]
            penultimo == g.arco[ultimo].nodo0
            fine == g.arco[ultimo].nodo1
            sigma == PediceDi(argomento.pedici, ultimo)
            nuovi == Range(h.archi) \ Range(g.archi)
            tutte == AlternativeSerie(Rilevanze(g, serie))
            menoUltima == AlternativeSerie(Rilevanze(g, SubSeq(serie, 1, Len(serie) - 1)))
        IN /\ \A i \in 1..(Len(serie) - 1) : PediceDi(argomento.pedici, serie[i]) = <<>>
           /\ Range(h.nodi) = Range(g.nodi) \ InterniDi(g, serie)
           /\ Range(h.archi) \cap Range(g.archi) = Range(g.archi) \ Range(serie)
           /\ Cardinality(nuovi) = 1
           /\ \A a \in nuovi :
                 /\ h.arco[a].nodo0 = g.arco[serie[1]].nodo0
                 /\ h.arco[a].nodo1 = fine
                 /\ IF sigma # <<>>
                    THEN /\ PediceDi(risultato[1].pedici, a) = sigma
                         /\ AlternativeDi(h.arco[a].rilevanza) = tutte
                    ELSE IF fine = argomento.nq \/ penultimo \in Range(g.nodiAccettazione)
                    THEN /\ PediceDi(risultato[1].pedici, a) = <<penultimo>>
                         /\ AlternativeDi(h.arco[a].rilevanza) = menoUltima
                    ELSE /\ PediceDi(risultato[1].pedici, a) = <<>>
                         /\ AlternativeDi(h.arco[a].rilevanza) = tutte
           /\ \A e \in Range(risultato[1].pedici) : e.arco \notin Range(serie)
           /\ StessiPedici(argomento, risultato[1], Range(g.archi) \ Range(serie))

\* a chain whose last edge only has a subscript has been collapsed, and the
\* new edge has the subscript and all the relevances, the last one not empty
TestimoneSerieChiusuraEsatta ==
    /\ pc = "ridotta"
    /\ TrovaSerieArchi(argomento.sc) # <<>>
    /\ LET serie == TrovaSerieArchi(argomento.sc)
           sigma == PediceDi(argomento.pedici, serie[Len(serie)])
       IN /\ sigma # <<>>
          /\ argomento.sc.arco[serie[Len(serie)]].rilevanza \notin {<<>>, <<Eps>>}
          /\ argomento.sc.arco[serie[1]].rilevanza \notin {<<>>, <<Eps>>}
          /\ \E a \in Range(risultato[1].sc.archi) \ Range(argomento.sc.archi) :
                PediceDi(risultato[1].pedici, a) = sigma

\* the bundle is made of two edges or more of the working copy with the
\* same source, the same target and the same subscript, possibly none
FascioStessoPedice(st, parallelo) ==
    /\ Len(parallelo) >= 2
    /\ Cardinality(Range(parallelo)) = Len(parallelo)
    /\ Range(parallelo) \subseteq Range(st.sc.archi)
    /\ \A i \in DOMAIN parallelo :
          /\ st.sc.arco[parallelo[i]].nodo0 = st.sc.arco[parallelo[1]].nodo0
          /\ st.sc.arco[parallelo[i]].nodo1 = st.sc.arco[parallelo[1]].nodo1
          /\ PediceDi(st.pedici, parallelo[i]) = PediceDi(st.pedici, parallelo[1])

\* what trovaParalleloArchiStessoPedice returns is empty or such a bundle
FascioMaiMisto ==
    pc = "ridotta" =>
        LET parallelo == TrovaParalleloArchiStessoPedice(argomento.sc, argomento.pedici)
        IN parallelo # <<>> => FascioStessoPedice(argomento, parallelo)

\* the parallel rewrite of espressioniRegolari puts one edge in the place
\* of the bundle, with the alternation of the relevances and the subscript
\* of the bundle
FascioRiscritto ==
    (/\ pc = "ridotta"
     /\ ~SerieAmmessa(TrovaSerieArchi(argomento.sc), argomento.pedici)
     /\ TrovaParalleloArchiStessoPedice(argomento.sc, argomento.pedici) # <<>>) =>
        LET g == argomento.sc
            h == risultato[1].sc
            parallelo == TrovaParalleloArchiStessoPedice(g, argomento.pedici)
            nuovi == Range(h.archi) \ Range(g.archi)
        IN /\ h.nodi = g.nodi
           /\ Range(h.archi) \cap Range(g.archi) = Range(g.archi) \ Range(parallelo)
           /\ Cardinality(nuovi) = 1
           /\ \A a \in nuovi :
                 /\ h.arco[a].nodo0 = g.arco[parallelo[1]].nodo0
                 /\ h.arco[a].nodo1 = g.arco[parallelo[1]].nodo1
                 /\ PediceDi(risultato[1].pedici, a) = PediceDi(argomento.pedici, parallelo[1])
                 /\ AlternativeDi(h.arco[a].rilevanza)
                       = UNION {AlternativeDi(g.arco[b].rilevanza) : b \in Range(parallelo)}
           /\ \A e \in Range(risultato[1].pedici) : e.arco \notin Range(parallelo)
           /\ StessiPedici(argomento, risultato[1], Range(g.archi) \ Range(parallelo))

\* C34: trovaParalleloArchiStessoPedice returns a bundle of two edges or
\* more with the same source, target and subscript whenever some node of
\* the working copy has one, and never a bundle that mixes subscripts; the
\* rewrite replaces the bundle by one edge with the alternation of the
\* relevances and the shared subscript.
ParalleloStessoPediceOvunque ==
    /\ pc = "ridotta" /\ EsisteParalleloStessoPedice(argomento) =>
          TrovaParalleloArchiStessoPedice(argomento.sc, argomento.pedici) # <<>>
    /\ FascioMaiMisto
    /\ FascioRiscritto

\* the third branch of the loop of espressioniRegolari is taken on st and
\* finds a node to eliminate
TerzoRamoChiusura(st) ==
    /\ ~SerieAmmessa(TrovaSerieArchi(st.sc), st.pedici)
    /\ TrovaParalleloArchiStessoPedice(st.sc, st.pedici) = <<>>
    /\ \E n \in Range(st.sc.nodi) : n \notin {st.n0, st.nq}

\* the node of st that the third branch eliminates
Eliminato(st) ==
    st.sc.nodi[CHOOSE i \in DOMAIN st.sc.nodi :
                  /\ st.sc.nodi[i] \notin {st.n0, st.nq}
                  /\ \A j \in 1..(i - 1) : st.sc.nodi[j] \in {st.n0, st.nq}]

\* the words, up to MaxParola, of r_in, then any number of the loops on w,
\* then r_out
ParoleAttraverso(g, w, e, u) ==
    Prodotto(Prodotto(Linguaggio(g.arco[e].rilevanza),
                      Stella(UNION {Linguaggio(g.arco[c].rilevanza) : c \in CappiSu(g, w)})),
             Linguaggio(g.arco[u].rilevanza))

\* C35: when espressioniRegolari eliminates the node w, the edge added for
\* an edge entering w and an edge leaving w has the alternatives
\* alpha (loop)* beta, alpha and beta the top-level alternatives of the two
\* relevances: it denotes the words of the entering relevance, then any
\* number of words of the loops on w, all of them, then the words of the
\* leaving relevance.
NodoIntermedioChiusuraDistribuisce ==
    (pc = "ridotta" /\ TerzoRamoChiusura(argomento)) =>
        LET g == argomento.sc
            h == risultato[1].sc
            w == Eliminato(argomento)
            nuovi == Range(h.archi) \ Range(g.archi)
        IN /\ Range(h.nodi) = Range(g.nodi) \ {w}
           /\ Cardinality(nuovi) = Cardinality(EntrantiIn(g, w) \X UscentiDa(g, w))
           /\ \A e \in EntrantiIn(g, w) : \A u \in UscentiDa(g, w) :
                 \E a \in nuovi :
                    /\ h.arco[a].nodo0 = g.arco[e].nodo0
                    /\ h.arco[a].nodo1 = g.arco[u].nodo1
                    /\ Linguaggio(h.arco[a].rilevanza) = ParoleAttraverso(g, w, e, u)

\* the subscript that the edge added for the leaving edge u of w must have
PediceAtteso(st, u) ==
    IF PediceDi(st.pedici, u) # <<>> THEN PediceDi(st.pedici, u)
    ELSE IF /\ st.sc.arco[u].nodo1 = st.nq
            /\ st.sc.arco[u].nodo0 \in Range(st.sc.nodiAccettazione)
    THEN <<st.sc.arco[u].nodo0>>
    ELSE <<>>

\* C36: when espressioniRegolari eliminates the node w, the edge added for
\* an entering and a leaving edge has the subscript of the leaving edge if
\* it has one, else w if the leaving edge goes to nq and w is an acceptance
\* node of the closure, else none; the entries of the loops on w and of the
\* edges entering and leaving w are taken out of the map, the other
\* entries stay.
PediciNodoIntermedio ==
    (pc = "ridotta" /\ TerzoRamoChiusura(argomento)) =>
        LET g == argomento.sc
            h == risultato[1].sc
            w == Eliminato(argomento)
            nuovi == Range(h.archi) \ Range(g.archi)
            tolti == EntrantiIn(g, w) \cup UscentiDa(g, w) \cup CappiSu(g, w)
            coppie == EntrantiIn(g, w) \X UscentiDa(g, w)
            come(c) == <<g.arco[c[1]].nodo0, g.arco[c[2]].nodo1, PediceAtteso(argomento, c[2])>>
            qual(a) == <<h.arco[a].nodo0, h.arco[a].nodo1, PediceDi(risultato[1].pedici, a)>>
        IN /\ Range(h.archi) \cap Range(g.archi) = Range(g.archi) \ tolti
           /\ \A t \in {come(c) : c \in coppie} \cup {qual(a) : a \in nuovi} :
                 Cardinality({c \in coppie : come(c) = t})
                    = Cardinality({a \in nuovi : qual(a) = t})
           /\ \A e \in Range(risultato[1].pedici) : e.arco \notin tolti
           /\ StessiPedici(argomento, risultato[1], Range(g.archi) \ tolti)

\* a node has been eliminated that had an entering edge, a leaving edge
\* with a subscript and, being an acceptance node, a leaving edge to nq
\* without subscript
TestimonePediciNodoIntermedio ==
    /\ pc = "ridotta"
    /\ TerzoRamoChiusura(argomento)
    /\ LET g == argomento.sc
           w == Eliminato(argomento)
       IN /\ EntrantiIn(g, w) # {}
          /\ \E u \in UscentiDa(g, w) : PediceDi(argomento.pedici, u) # <<>>
          /\ \E u \in UscentiDa(g, w) :
                /\ PediceDi(argomento.pedici, u) = <<>>
                /\ PediceAtteso(argomento, u) = <<w>>
          /\ \E a \in Range(risultato[1].sc.archi) \ Range(g.archi) :
                PediceDi(risultato[1].pedici, a) = <<w>>

\* C37: at the exit of the loop of espressioniRegolari every edge left in
\* the working copy has a subscript, which is an acceptance node of the
\* closure, and the decorations are defined on every acceptance node of the
\* closure: the decoration of the node sigma is the relevance of the edge
\* left with the subscript sigma.
DecorazioniComplete ==
    pc = "decorata" =>
        LET st == risultato[1]
            accettazione == Range(st.sc.nodiAccettazione)
        IN /\ \A a \in Range(st.sc.archi) :
                 /\ PediceDi(st.pedici, a) # <<>>
                 /\ PediceDi(st.pedici, a)[1] \in accettazione
           /\ \A sigma \in accettazione :
                 \E i \in DOMAIN diag :
                    /\ diag[i].nodo = sigma
                    /\ \E a \in Range(st.sc.archi) :
                          /\ PediceDi(st.pedici, a) = <<sigma>>
                          /\ diag[i].rilevanza = st.sc.arco[a].rilevanza

RECURSIVE SilenziosiDa(_, _)
\* the nodes of the space s reached from the nodes of R through edges
\* without observable label
SilenziosiDa(s, R) ==
    LET R2 == R \cup {s.arco[a].nodo1 :
                         a \in {b \in Range(s.archi) :
                                   s.arco[b].nodo0 \in R /\ s.arco[b].osservabilita = ""}}
    IN IF R2 = R THEN R ELSE SilenziosiDa(s, R2)

\* the node n of the space s has an edge with an observable label
HaUscenteOsservabile(s, n) ==
    \E a \in Range(s.archi) : s.arco[a].nodo0 = n /\ s.arco[a].osservabilita # ""

\* C38: the closure built by generaChiusuraSilenziosaDecorata for an entry
\* node has exactly the nodes reached from the entry through silent edges,
\* the entry included, and exactly the silent edges that leave them, each
\* once and no observable edge; its exit nodes are the nodes of the closure
\* with an observable leaving edge; its acceptance nodes are the nodes of
\* the closure that are accepting in the space or have an observable
\* leaving edge, each once.
ChiusuraEsatta ==
    pc = "compito5" /\ diag # <<>> =>
        \A ch \in Chiusure :
            LET dentro == SilenziosiDa(sc, {ch.nodoIniziale})
            IN /\ Range(ch.nodi) = dentro
               /\ Range(ch.archi) = {a \in Range(sc.archi) :
                                        /\ sc.arco[a].nodo0 \in dentro
                                        /\ sc.arco[a].osservabilita = ""}
               /\ Len(ch.archi) = Cardinality(Range(ch.archi))
               /\ Range(ch.nodiUscita) = {n \in dentro : HaUscenteOsservabile(sc, n)}
               /\ Range(ch.nodiAccettazione)
                     = {n \in dentro : sc.nodo[n].isFinale \/ HaUscenteOsservabile(sc, n)}
               /\ Len(ch.nodiAccettazione) = Cardinality(Range(ch.nodiAccettazione))

\* a closure of two nodes or more that leaves out a node of the space, with
\* an exit node and an acceptance node that is not an exit node, and a
\* closure with a node that is not an acceptance node
TestimoneChiusuraEsatta ==
    /\ pc = "compito5"
    /\ diag # <<>>
    /\ \E ch \in Chiusure :
          /\ Len(ch.nodi) >= 2
          /\ ch.nodiUscita # <<>>
          /\ Range(ch.nodiAccettazione) \ Range(ch.nodiUscita) # {}
          /\ \E n \in Range(sc.nodi) : n \notin Range(ch.nodi)
    /\ \E ch \in Chiusure : Range(ch.nodi) \ Range(ch.nodiAccettazione) # {}

\* C39: at every iteration of the loop of espressioniRegolari every key of
\* the subscript map is an edge of the working copy, so that no entry
\* outlives its edge, every value is an acceptance node of the working
\* copy, and an edge is without subscript if and only if it is not a key of
\* the map.
MappaPediciCoerente ==
    pc \in {"normalizzata", "ridotta"} =>
        LET st == risultato[1]
        IN /\ \A e \in Range(st.pedici) :
                 /\ e.arco \in Range(st.sc.archi)
                 /\ e.nodo \in Range(st.sc.nodiAccettazione)
           /\ \A i, j \in DOMAIN st.pedici :
                 st.pedici[i].arco = st.pedici[j].arco => i = j
           /\ \A a \in Range(st.sc.archi) :
                 PediceDi(st.pedici, a) = <<>> <=> \A e \in Range(st.pedici) : e.arco # a

\* an iteration has removed an edge that had an entry in the map, and the
\* map still has two entries
TestimoneMappaPediciCoerente ==
    /\ pc = "ridotta"
    /\ Len(risultato[1].pedici) >= 2
    /\ \E e \in Range(argomento.pedici) : e.arco \notin Range(risultato[1].sc.archi)
    /\ \E a \in Range(risultato[1].sc.archi) : PediceDi(risultato[1].pedici, a) = <<>>

\* what potaturaRidenominazione leaves: it raises exactly when the node
\* list or the edge list is empty before or after the pruning; when it
\* returns, the space has a node, an edge and an acceptance node, its
\* initial node is the one it had and is in the node list, and the nodes
\* are named "0", "1", ... in the order of the list, the initial node "0"
PotaturaRiuscita(prima, dopo, err) ==
    /\ err \in {"", "ValueError"}
    /\ err = "ValueError" <=> \/ prima.nodi = <<>> \/ prima.archi = <<>>
                              \/ dopo.nodi = <<>> \/ dopo.archi = <<>>
    /\ err = "" =>
          /\ dopo.nodi # <<>>
          /\ dopo.archi # <<>>
          /\ NodiAccettazione(dopo) # {}
          /\ dopo.nodoIniziale = prima.nodoIniziale
          /\ dopo.nodoIniziale \in Range(dopo.nodi)
          /\ \A i \in DOMAIN dopo.nodi : dopo.nodo[dopo.nodi[i]].nome = ToString(i - 1)
          /\ dopo.nodo[dopo.nodoIniziale].nome = "0"

\* C40: potaturaRidenominazione raises ValueError whenever the node list or
\* the edge list is empty before or after the pruning; whenever it returns
\* the pruned space has at least a node, an edge and an acceptance node,
\* the initial node has survived and the survivors are named "0", "1", ...
\* in the order of the node list, the initial node being "0".
PotaturaPostcondizione ==
    [][/\ pc = "compito1pota" /\ pc' # pc => PotaturaRiuscita(sc, sc', errore'.compito1)
       /\ pc = "compito2pota" /\ pc' # pc => PotaturaRiuscita(scol, scol', errore'.compito2)]_vars

\* the pruning of the space of the observation returned after it removed a
\* node that was not the last of the list, so that a survivor changed name
TestimonePotaturaPostcondizione ==
    /\ pc = "compito3"
    /\ errore.compito2 = ""
    /\ Len(scol.nodi) >= 2
    /\ Len(scol.nodi) < Len(scol.nodo)
    /\ \E i \in DOMAIN scol.nodi : scol.nodi[i] # i

====
